---------------------------- MODULE Spec2Model ----------------------------
(***************************************************************************)
(* Advent of Code 2024 solutions (rrrodzilla/advent_of_code_2024).         *)
(* Every day is an independent program, so every day has its own state     *)
(* variables, its own initial condition and its own specification          *)
(* (SpecDay3, SpecDay7, ...).  While one day runs, the variables of the    *)
(* other days rest at fixed values.                                        *)
(***************************************************************************)
EXTENDS Integers, Sequences, FiniteSets, TLC

VARIABLES
    \* ---- day 3: MemoryParser (parser/scanner.rs) ----
    state,          \* MemoryParser.state : ParserState
    checksum,       \* MemoryParser.checksum : u32
    mul_enabled,    \* MemoryParser.mul_enabled : bool
    fed,            \* number of characters fed to process_char so far
    tail,           \* history: longest suffix of the fed text that starts a token
    due,            \* history: sum of x*y over the enabled mul(x,y) texts fed
    due_enabled,    \* history: the last complete do()/don't() text was do(), or none
    \* ---- day 7: BridgeCalibrator (lib.rs) ----
    equations,      \* BridgeCalibrator.equations : Vec<BridgeEquation>
    overflow_checks,\* the build panics on integer overflow (debug) or wraps (release)
    asked,          \* the last is_calibratable call: equation index, flag, verdict
    basic_stress,   \* result of calculate_basic_stress, None before the call
    advanced_stress,\* result of calculate_advanced_stress, None before the call
    \* ---- day 5: respects_sacred_order, EnchantedOrderKeeper (main.rs) ----
    update,         \* the update: &[u32]
    lore,           \* the rules: &[PrinterLore]
    respects,       \* result of respects_sacred_order, FALSE before the call
    dependencies,   \* EnchantedOrderKeeper.dependencies
    prerequisites_count, \* EnchantedOrderKeeper.prerequisites_count
    ready_pages,    \* arrange_pages: the VecDeque ready_pages
    sacred_sequence,\* arrange_pages: the Vec sacred_sequence (its result)
    pc5,            \* position in the check / summon / arrange sequence
    \* ---- day 2: ReactorSafetyAnalyzer (main.rs) ----
    total_reports,  \* ReactorSafetyAnalyzer.total_reports
    safe_reports,   \* ReactorSafetyAnalyzer.safe_reports
    levels,         \* the report of the last ReactorLevels message handled
    crashed,        \* the handler panicked
    overflow_checks2,\* the build panics on integer overflow (debug) or wraps (release)
    handled,        \* history: number of ReactorLevels messages handled
    due_safe,       \* history: number of handled reports that are safe under the rule
    \* ---- day 6: trace_patrol_route, simulate_timeline_with_obstacle (main.rs) ----
    lab,            \* the TemporalLab
    origin,         \* the guard's origin
    pc6,            \* which function runs and whether it has returned
    current_pos,    \* trace_patrol_route: current_pos
    current_vector, \* trace_patrol_route: current_vector
    time_points,    \* trace_patrol_route: time_points (its result)
    paradox_point,  \* simulate_timeline_with_obstacle: the candidate
    current_state,  \* simulate_timeline_with_obstacle: current_state
    quantum_memory, \* the ParadoxTracker's bits
    time_loop,      \* result of simulate_timeline_with_obstacle, "none" before it
    \* ---- day 9: DiskState (main.rs) ----
    disk_map,       \* the digits DiskState::new was given
    blocks,         \* DiskState.blocks
    pc9,            \* which compaction runs and whether it has returned
    file_id,        \* compact_files: file_id of the loop over the ids
    \* ---- day 10: sum_of_trailhead_scores, sum_of_trailhead_ratings (main.rs) ----
    height_map,     \* map
    pc10,           \* which sum runs, "printed" when both have returned
    cursor,         \* the cell the loops over r and c take next
    total_score,    \* sum_of_trailhead_scores: total_score
    total_rating,   \* sum_of_trailhead_ratings: total_rating
    \* ---- day 11: observe_stone_transformations (main.rs) ----
    stone_memory,   \* the memo table
    observations,   \* history: number of calls made
    observed_stone, \* history: stone of the last call
    observed_blinks,\* history: blinks of the last call
    observed_result,\* result of the last call
    \* ---- day 8: analyze_resonance (main.rs) ----
    signal_map,     \* the SignalMap
    pc8,            \* which analyze_resonance runs
    unvisited,      \* frequencies whose antennas the running call has yet to see
    resonance,      \* points the running call has collected
    phase_one_result, \* count of the DistanceResonance run, -1 before it
    phase_two_result, \* count of the HarmonicResonance run, -1 before it
    \* ---- day 4: Grid (lib.rs), main (main.rs) ----
    input,          \* the lines of the input file
    grid,           \* the Grid parsed from them
    pc4,            \* how far main has come
    word_count,     \* result of find_word_xmas, -1 before it
    cross_count,    \* result of find_crossed_mas, -1 before it
    indexes_read,   \* history: indexes of cells the last search read
    \* ---- day 1: HistorianSage (main.rs) ----
    senior_historian_list,
    junior_historian_list,
    pc1,              \* "recording", "reported" or "panicked"
    reported_distance, \* the distance printed by the ScrollFullyDecoded handler
    reported_score,    \* the correlation printed by it
    overflow_checks1, \* whether the build checks arithmetic for overflow
    pairs,            \* history: the coordinate pairs in the order recorded
    \* ---- the programs as commands: main of days 1 to 5 ----
    program,        \* the day whose program runs
    arguments,      \* number of arguments after the program's name
    content,        \* the lines of the file at the path (day 5: of standard input)
    file_opens,     \* whether the file at the path can be opened and read
    pc0,            \* "launched" or "exited"
    exit_code,      \* the exit code, -1 before the exit
    stderr_written, \* whether a message was written to standard error
    result_printed, \* whether the result was printed
    decoded,        \* what the result was computed from
    \* ---- day 6: calculate_paradox_points (main.rs) ----
    safe_coordinates, \* lab.safe_coordinates
    chunk_len,        \* the chunk length of par_chunks
    filtered,         \* per chunk that was run, the values its simulations returned
    paradox_count,    \* the value returned, -1 before it
    \* ---- day 4: Grid::from_str (lib.rs) ----
    grid_text,        \* the string handed to Grid::from_str
    grid_parsed,      \* what from_str returned
    \* ---- day 3: process_char call by call (scanner.rs) ----
    since,            \* the instruction the input is in the middle of or has just completed
    checksum_before,  \* checksum before the last call of process_char
    enabled_before,   \* mul_enabled before the last call of process_char
    \* ---- days 5 and 6: Display of the result (main.rs) ----
    report_day,       \* the program whose result is formatted, 5 or 6
    reports,          \* two results of that program
    sign_minus,       \* f.sign_minus(): whether the format is {:-}
    printed,          \* the texts of the two results, <<>> before
    \* ---- days 1 and 2: reader and analyzer agents (main.rs) ----
    agent_day,        \* the program whose agents run, 1 or 2
    file_messages,    \* the per-line messages of the file, in file order
    checked_build,    \* whether the build checks arithmetic overflow
    reader_pc,        \* where the reader is: "started", "broadcasting", "signalled"
    futures_left,     \* the per-line broadcasts that have not completed
    inbox,            \* the messages that reached the analyzer, oldest first
    analyzer_model,   \* agent.model of the analyzer
    analyzer_down,    \* whether a handler of the analyzer panicked
    handling_order,   \* the messages the analyzer handled, in that order
    announced         \* the totals printed on the completion signal, <<>> before

vars3 == <<state, checksum, mul_enabled, fed, tail, due, due_enabled>>

vars7 == <<equations, overflow_checks, asked, basic_stress, advanced_stress>>

vars5 == <<update, lore, respects, dependencies, prerequisites_count, ready_pages,
           sacred_sequence, pc5>>

vars2 == <<total_reports, safe_reports, levels, crashed, overflow_checks2, handled,
           due_safe>>

vars6 == <<lab, origin, pc6, current_pos, current_vector, time_points, paradox_point,
           current_state, quantum_memory, time_loop>>

vars9 == <<disk_map, blocks, pc9, file_id>>

vars10 == <<height_map, pc10, cursor, total_score, total_rating>>

vars11 == <<stone_memory, observations, observed_stone, observed_blinks, observed_result>>

vars8 == <<signal_map, pc8, unvisited, resonance, phase_one_result, phase_two_result>>

vars4 == <<input, grid, pc4, word_count, cross_count, indexes_read>>

vars1 == <<senior_historian_list, junior_historian_list, pc1, reported_distance, reported_score,
           overflow_checks1, pairs>>

vars0 == <<program, arguments, content, file_opens, pc0, exit_code, stderr_written,
           result_printed, decoded>>

vars6p == <<safe_coordinates, chunk_len, filtered, paradox_count>>

vars4s == <<grid_text, grid_parsed>>

vars3f == <<since, checksum_before, enabled_before>>

varsFmt == <<report_day, reports, sign_minus, printed>>

varsMsg == <<agent_day, file_messages, checked_build, reader_pc, futures_left, inbox, analyzer_model, analyzer_down, handling_order, announced>>

vars == <<vars3, vars7, vars5, vars2, vars6, vars9, vars10, vars11, vars8, vars4, vars1,
          vars0,
          vars6p,
          vars4s,
          vars3f,
          varsFmt,
          varsMsg>>

\* The variables of the days other than the one running.
others3 == <<vars7, vars5, vars2, vars6, vars9, vars10, vars11, vars8, vars4, vars1, vars0, vars6p, vars4s, vars3f, varsFmt, varsMsg>>
others7 == <<vars3, vars5, vars2, vars6, vars9, vars10, vars11, vars8, vars4, vars1, vars0, vars6p, vars4s, vars3f, varsFmt, varsMsg>>
others5 == <<vars3, vars7, vars2, vars6, vars9, vars10, vars11, vars8, vars4, vars1, vars0, vars6p, vars4s, vars3f, varsFmt, varsMsg>>
others2 == <<vars3, vars7, vars5, vars6, vars9, vars10, vars11, vars8, vars4, vars1, vars0, vars6p, vars4s, vars3f, varsFmt, varsMsg>>
others6 == <<vars3, vars7, vars5, vars2, vars9, vars10, vars11, vars8, vars4, vars1, vars0, vars6p, vars4s, vars3f, varsFmt, varsMsg>>
others6p == <<vars3, vars7, vars5, vars2, vars9, vars10, vars11, vars8, vars4, vars1, vars0, vars4s, vars3f, varsFmt, varsMsg>>
others4s == <<vars3, vars7, vars5, vars2, vars6, vars9, vars10, vars11, vars8, vars4, vars1, vars0, vars6p, vars3f, varsFmt, varsMsg>>
others3f == <<vars3, vars7, vars5, vars2, vars6, vars9, vars10, vars11, vars8, vars4, vars1, vars0, vars6p, vars4s, varsFmt, varsMsg>>

\* The variables of the days other than day 3.
beside3 == <<vars7, vars5, vars2, vars6, vars9, vars10, vars11, vars8, vars4, vars1, vars0, vars6p, vars4s, varsFmt, varsMsg>>
othersFmt == <<vars3, vars7, vars5, vars2, vars6, vars9, vars10, vars11, vars8, vars4, vars1, vars0, vars6p, vars4s, vars3f, varsMsg>>
othersMsg == <<vars3, vars7, vars5, vars2, vars6, vars9, vars10, vars11, vars8, vars4, vars1, vars0, vars6p, vars4s, vars3f, varsFmt>>
others0 == <<vars3, vars7, vars5, vars2, vars6, vars9, vars10, vars11, vars8, vars4, vars1, vars6p, vars4s, vars3f, varsFmt, varsMsg>>
others1 == <<vars3, vars7, vars5, vars2, vars6, vars9, vars10, vars11, vars8, vars4, vars0, vars6p, vars4s, vars3f, varsFmt, varsMsg>>
others4 == <<vars3, vars7, vars5, vars2, vars6, vars9, vars10, vars11, vars8, vars1, vars0, vars6p, vars4s, vars3f, varsFmt, varsMsg>>
others8 == <<vars3, vars7, vars5, vars2, vars6, vars9, vars10, vars11, vars4, vars1, vars0, vars6p, vars4s, vars3f, varsFmt, varsMsg>>
others11 == <<vars3, vars7, vars5, vars2, vars6, vars9, vars10, vars8, vars4, vars1, vars0, vars6p, vars4s, vars3f, varsFmt, varsMsg>>
others10 == <<vars3, vars7, vars5, vars2, vars6, vars9, vars11, vars8, vars4, vars1, vars0, vars6p, vars4s, vars3f, varsFmt, varsMsg>>
others9 == <<vars3, vars7, vars5, vars2, vars6, vars10, vars11, vars8, vars4, vars1, vars0, vars6p, vars4s, vars3f, varsFmt, varsMsg>>

(***************************************************************************)
(* Generic helpers                                                         *)
(***************************************************************************)
Last(s) == s[Len(s)]

Suffix(s, k) == SubSeq(s, Len(s) - k + 1, Len(s))

IsPrefix(p, t) == Len(p) <= Len(t) /\ SubSeq(t, 1, Len(p)) = p

Range(s) == {s[i] : i \in 1..Len(s)}

SeqsUpTo(S, n) == UNION {[1..k -> S] : k \in 0..n}

(***************************************************************************)
(* Day 3: corrupted memory scanner                                         *)
(***************************************************************************)
\* Bound: number of characters fed to the parser in one run.
MaxChars == 16

\* The characters the runs feed: every character the scanner tests for, two
\* digits and one character that belongs to no token.
Alphabet == {"m", "u", "l", "(", ")", ",", "d", "o", "n", "'", "t", "2", "3", "x"}

AsciiDigits == <<"0", "1", "2", "3", "4", "5", "6", "7", "8", "9">>

\* char::is_ascii_digit
IsAsciiDigit(c) == \E i \in 1..10 : AsciiDigits[i] = c

\* MemoryDigit::try_from(c) for a digit: c as u8 - b'0'
MemoryDigit(c) == (CHOOSE i \in 1..10 : AsciiDigits[i] = c) - 1

MAX_MEMORY_VALUE == 999

\* impl AddAssign<MemoryDigit> for MemoryNumber, on the u16 field
AddAssignDigit(number, digit) == (number * 10 + digit) % 65536

\* ValidMemoryValue::try_from(number).is_ok()
ValidMemoryValue(number) == number <= MAX_MEMORY_VALUE

\* impl Mul for &mut MemoryNumber: both u16 fields widened to u32 before the
\* product, which therefore always fits (65535 * 65535 < 2^32).
MulNumbers(x, y) == x * y

Initial == [tag |-> "Initial"]

St(t) == [tag |-> t]

\* The parser state after process_char(c) in state s.
NextState(s, c) ==
    CASE s.tag = "Initial" ->
            IF c = "m" THEN St("M") ELSE IF c = "d" THEN St("D") ELSE s
      [] s.tag = "M" -> IF c = "u" THEN St("MU") ELSE Initial
      [] s.tag = "MU" -> IF c = "l" THEN St("Mul") ELSE Initial
      [] s.tag = "Mul" -> IF c = "(" THEN St("MulLParen") ELSE Initial
      [] s.tag = "MulLParen" ->
            IF IsAsciiDigit(c) THEN [tag |-> "ParsingX", x |-> MemoryDigit(c)]
            ELSE Initial
      [] s.tag = "ParsingX" ->
            IF IsAsciiDigit(c)
            THEN LET number == AddAssignDigit(s.x, MemoryDigit(c))
                 IN  IF ValidMemoryValue(number)
                     THEN [tag |-> "ParsingX", x |-> number]
                     ELSE Initial
            ELSE IF c = "," THEN [tag |-> "AfterComma", x |-> s.x]
            ELSE Initial
      [] s.tag = "AfterComma" ->
            IF IsAsciiDigit(c)
            THEN [tag |-> "ParsingY", x |-> s.x, y |-> MemoryDigit(c)]
            ELSE Initial
      [] s.tag = "ParsingY" ->
            IF IsAsciiDigit(c)
            THEN LET number == AddAssignDigit(s.y, MemoryDigit(c))
                 IN  IF ValidMemoryValue(number)
                     THEN [tag |-> "ParsingY", x |-> s.x, y |-> number]
                     ELSE Initial
            ELSE Initial
      [] s.tag = "D" -> IF c = "o" THEN St("DO") ELSE Initial
      [] s.tag = "DO" ->
            IF c = "(" THEN St("DoLparen")
            ELSE IF c = "n" THEN St("Don") ELSE Initial
      [] s.tag = "DoLparen" -> Initial
      [] s.tag = "Don" -> IF c = "'" THEN St("DontQuote") ELSE Initial
      [] s.tag = "DontQuote" -> IF c = "t" THEN St("Dont") ELSE Initial
      [] s.tag = "Dont" -> IF c = "(" THEN St("DontLparen") ELSE Initial
      [] s.tag = "DontLparen" -> Initial

\* The checksum after process_char(c): only the ParsingY arm adds to it.
\* (The u32 sum stays far below 2^32 in every run of at most MaxChars
\* characters: each product is at most 999 * 999.)
NextChecksum(s, c, sum, enabled) ==
    IF s.tag = "ParsingY" /\ c = ")" /\ enabled
    THEN sum + MulNumbers(s.x, s.y)
    ELSE sum

\* A scanner that enables at the opening parenthesis of do().
EnabledEarly(s, c, enabled) ==
    IF s.tag = "DO" /\ c = "(" THEN TRUE
    ELSE IF s.tag = "DontLparen" /\ c = ")" THEN FALSE
    ELSE enabled

\* mul_enabled after process_char(c): only DoLparen and DontLparen set it.
NextEnabled(s, c, enabled) ==
    IF s.tag = "DoLparen" /\ c = ")" THEN TRUE
    ELSE IF s.tag = "DontLparen" /\ c = ")" THEN FALSE
    ELSE enabled

----------------------------------------------------------------------------
\* The text of the input, read independently of the scanner.

\* A text with every digit replaced by "#".
Shape(s) == [i \in 1..Len(s) |-> IF IsAsciiDigit(s[i]) THEN "#" ELSE s[i]]

Hashes(n) == [i \in 1..n |-> "#"]

MulShapes ==
    { <<"m", "u", "l", "(">> \o Hashes(i) \o <<",">> \o Hashes(j) \o <<")">> :
        i \in 1..3, j \in 1..3 }

DoText == <<"d", "o", "(", ")">>

DontText == <<"d", "o", "n", "'", "t", "(", ")">>

TokenShapes == MulShapes \cup {DoText, DontText}

\* s is a proper beginning of one of the three texts.
StartsToken(s) ==
    \E t \in TokenShapes : IsPrefix(Shape(s), t) /\ Len(s) < Len(t)

\* The longest suffix of s that is a proper beginning of a token.
LiveSuffix(s) ==
    LET ks == {k \in 0..Len(s) : StartsToken(Suffix(s, k))}
        k  == CHOOSE k \in ks : \A j \in ks : j <= k
    IN  Suffix(s, k)

RECURSIVE Decimal(_)
Decimal(ds) ==
    IF ds = <<>> THEN 0
    ELSE Decimal(SubSeq(ds, 1, Len(ds) - 1)) * 10 + MemoryDigit(Last(ds))

\* For a text mul(x,y): the position of its comma, x and y.
CommaAt(s) == CHOOSE i \in 1..Len(s) : s[i] = ","
MulX(s) == Decimal(SubSeq(s, 5, CommaAt(s) - 1))
MulY(s) == Decimal(SubSeq(s, CommaAt(s) + 1, Len(s) - 1))

\* The text s ends with the exact text mul(x,y), do() or don't().
EndsWithMul(s) == \E k \in 8..12 : k <= Len(s) /\ Shape(Suffix(s, k)) \in MulShapes
MulAtEnd(s) ==
    Suffix(s, CHOOSE k \in 8..12 : k <= Len(s) /\ Shape(Suffix(s, k)) \in MulShapes)
EndsWithDo(s) == Len(s) >= 4 /\ Suffix(s, 4) = DoText
EndsWithDont(s) == Len(s) >= 7 /\ Suffix(s, 7) = DontText

----------------------------------------------------------------------------
Start3 ==
    /\ state = Initial
    /\ checksum = 0
    /\ mul_enabled = TRUE
    /\ fed = 0
    /\ tail = <<>>
    /\ due = 0
    /\ due_enabled = TRUE

\* parser.process_char(c)
ProcessChar(c) ==
    /\ fed < MaxChars
    /\ state' = NextState(state, c)
    /\ checksum' = NextChecksum(state, c, checksum, mul_enabled)
    /\ mul_enabled' = NextEnabled(state, c, mul_enabled)
    /\ fed' = fed + 1
    /\ LET text == tail \o <<c>>
       IN  /\ tail' = LiveSuffix(text)
           /\ due' = IF EndsWithMul(text) /\ due_enabled
                     THEN due + MulX(MulAtEnd(text)) * MulY(MulAtEnd(text))
                     ELSE due
           /\ due_enabled' = IF EndsWithDo(text) THEN TRUE
                             ELSE IF EndsWithDont(text) THEN FALSE
                             ELSE due_enabled
    /\ UNCHANGED others3

Next3 == \E c \in Alphabet : ProcessChar(c)

\* Day 3 at rest: the default parser, nothing fed.
Rest3 == Start3

\* C1: after any characters fed one at a time to the default parser,
\* checksum() is the sum of x*y over the enabled occurrences of the exact
\* text mul(x,y) in the input.
C1_ChecksumIsSumOfEnabledMuls == checksum = due
----------------------------------------------------------------------------
\* Day 3, process_char call by call: what one call changes, and the operands
\* it holds.

\* Bound: number of characters fed in a run of this kind.
MaxFedChars == 15

\* The characters of these runs: those of the three instructions, the digits
\* 0 and 9, with which an operand reaches 999 and a number of four digits
\* can begin with zeros, and one character of no instruction.
FrameAlphabet == {"m", "u", "l", "(", ")", ",", "d", "o", "n", "'", "t", "0", "9", "x"}

AllDigits(s) == \A i \in 1..Len(s) : IsAsciiDigit(s[i])

\* The positions of the commas of a text.
Commas(s) == {i \in 1..Len(s) : s[i] = ","}

\* The text s is "mul(", digits, a comma, digits and ")".
IsMulText(s) ==
    /\ Len(s) >= 8
    /\ SubSeq(s, 1, 4) = <<"m", "u", "l", "(">>
    /\ Last(s) = ")"
    /\ Cardinality(Commas(s)) = 1
    /\ \E i \in Commas(s) :
           /\ i > 5 /\ i < Len(s) - 1
           /\ AllDigits(SubSeq(s, 5, i - 1))
           /\ AllDigits(SubSeq(s, i + 1, Len(s) - 1))

\* The digits of the two operands of a text that begins with "mul(": those
\* before the comma, and those after it up to a closing parenthesis.
OperandX(s) ==
    IF Commas(s) = {} THEN SubSeq(s, 5, Len(s))
    ELSE SubSeq(s, 5, (CHOOSE i \in Commas(s) : TRUE) - 1)
OperandY(s) ==
    IF Commas(s) = {} THEN <<>>
    ELSE SubSeq(s, (CHOOSE i \in Commas(s) : TRUE) + 1,
                IF Last(s) = ")" THEN Len(s) - 1 ELSE Len(s))

\* The text s is a beginning of mul(x,y) that is not yet complete.
BeginsMul(s) ==
    IF Len(s) <= 4 THEN IsPrefix(s, <<"m", "u", "l", "(">>)
    ELSE /\ SubSeq(s, 1, 4) = <<"m", "u", "l", "(">>
         /\ Cardinality(Commas(s)) <= 1
         /\ AllDigits(OperandX(s)) /\ OperandX(s) # <<>>
         /\ AllDigits(OperandY(s))
         /\ Last(s) # ")"

\* The text s is one of the three instructions, or a beginning of one.
IsInstruction(s) == s = DoText \/ s = DontText \/ IsMulText(s)
BeginsInstruction(s) ==
    \/ IsPrefix(s, DoText) /\ s # DoText
    \/ IsPrefix(s, DontText) /\ s # DontText
    \/ BeginsMul(s)

\* The instruction the input is in the middle of, or has just completed,
\* after character c.  No instruction holds an 'm' or a 'd' after its first
\* character, so an instruction in progress starts at the last 'm' or 'd'.
Since(before, c) ==
    LET begun == IF IsInstruction(before) THEN <<>> ELSE before
    IN  IF BeginsInstruction(begun \o <<c>>) \/ IsInstruction(begun \o <<c>>)
        THEN begun \o <<c>>
        ELSE IF c \in {"m", "d"} THEN <<c>>
        ELSE <<>>

Start3f ==
    /\ since = <<>>
    /\ checksum_before = 0
    /\ enabled_before = TRUE

\* parser.process_char(c), with the values of checksum and mul_enabled
\* before the call kept beside the ones after it
ProcessCharFrom(c) ==
    /\ fed < MaxFedChars
    /\ state' = NextState(state, c)
    /\ checksum' = NextChecksum(state, c, checksum, mul_enabled)
    /\ mul_enabled' = NextEnabled(state, c, mul_enabled)
    /\ fed' = fed + 1
    /\ since' = Since(since, c)
    /\ checksum_before' = checksum
    /\ enabled_before' = mul_enabled
    /\ UNCHANGED <<tail, due, due_enabled, beside3>>

Rest3f == Start3f

Next3f == \E c \in FrameAlphabet : ProcessCharFrom(c)

\* C27: process_char changes mul_enabled only when it consumes the ')' that
\* completes do() (to true) or don't() (to false), and changes checksum only
\* when it consumes the ')' that completes a mul(x,y) while mul_enabled is
\* true, adding exactly x*y; any other character leaves both as they were,
\* and while mul_enabled is false the checksum does not move.
C27_OnlyClosingParenthesesChange ==
    /\ mul_enabled # enabled_before =>
           IF mul_enabled THEN since = DoText ELSE since = DontText
    /\ checksum # checksum_before =>
           /\ IsMulText(since)
           /\ enabled_before
           /\ checksum = checksum_before
                  + Decimal(OperandX(since)) * Decimal(OperandY(since))
    /\ ~IsInstruction(since) =>
           checksum = checksum_before /\ mul_enabled = enabled_before
    /\ ~enabled_before => checksum = checksum_before

\* C27 witness: a mul(x,y) with a product above zero was completed after a
\* don't() and left the checksum alone.
C27_Witness_MulWhileDisabled ==
    /\ IsMulText(since)
    /\ ~enabled_before /\ ~mul_enabled
    /\ Decimal(OperandX(since)) * Decimal(OperandY(since)) > 0
    /\ checksum = checksum_before

\* C30: after every call of process_char an operand held in the parser state
\* is at most 999, so that appending a digit as value * 10 + digit stays
\* inside the 16-bit operand, and a fourth digit of an operand sends the
\* parser back to Initial and nothing is added for that text.
C30_OperandsStayWithinThreeDigits ==
    /\ state.tag \in {"ParsingX", "AfterComma", "ParsingY"} =>
           state.x <= MAX_MEMORY_VALUE /\ state.x * 10 + 9 < 65536
    /\ state.tag = "ParsingY" =>
           state.y <= MAX_MEMORY_VALUE /\ state.y * 10 + 9 < 65536
    /\ (/\ BeginsMul(since)
        /\ Len(OperandX(since)) >= 4 \/ Len(OperandY(since)) >= 4) =>
           state = Initial
    /\ (/\ IsMulText(since)
        /\ Len(OperandX(since)) >= 4 \/ Len(OperandY(since)) >= 4) =>
           checksum = checksum_before

(***************************************************************************)
(* Day 7: bridge calibration                                               *)
(***************************************************************************)
\* The model checker's integers end at 2^31 - 1, so the model's u64 is 31
\* bits wide: U64_MAX stands for u64::MAX, and every operation below tests
\* for overflow against it without ever computing a larger number.
U64_MAX == 2147483647

\* Bounds: operands of one equation, equations of one calibrator.
MaxOperands == 4
MaxEquations == 2

\* The operand and target values the runs draw from.
Loads == {0, 2, 3, 12, 100}
Targets == {0, 8, 12, 25, 223, 2100}

\* Option::None of an Option<u64>
None == -1

\* u64::checked_add, u64::checked_mul, u64::checked_pow
CheckedAdd(a, b) == IF a > U64_MAX - b THEN None ELSE a + b
CheckedMul(a, b) == IF b # 0 /\ a > U64_MAX \div b THEN None ELSE a * b
RECURSIVE CheckedPow(_, _)
CheckedPow(base, exp) ==
    IF exp = 0 THEN 1
    ELSE LET rest == CheckedPow(base, exp - 1)
         IN  IF rest = None THEN None ELSE CheckedMul(rest, base)

\* u64::to_string().len()
RECURSIVE DecimalLen(_)
DecimalLen(n) == IF n < 10 THEN 1 ELSE 1 + DecimalLen(n \div 10)

\* The plain + and * of a u64: they overflow when the checked ones are None;
\* a build with overflow checks then panics, a build without wraps around.
WrappingAdd(a, b) == IF a > U64_MAX - b THEN a - (U64_MAX - b) - 1 ELSE a + b
\* The product is put together from the 15-bit halves of the operands, so
\* that no step leaves the model checker's integers.
WrappingMul(a, b) ==
    LET a1 == a \div 32768
        a0 == a % 32768
        b1 == b \div 32768
        b0 == b % 32768
        top == ((a1 % 2) * (b1 % 2)) * 1073741824
        mid == ((((a1 * b0) % 65536) + ((a0 * b1) % 65536)) % 65536) * 32768
    IN  WrappingAdd(WrappingAdd(top, mid), a0 * b0)

\* left_load.checked_mul(shift)?.checked_add(right_load): the ? hands a None on.
ShiftAndAdd(left_load, shift, right_load) ==
    LET shifted == CheckedMul(left_load, shift)
    IN  IF shifted = None THEN None ELSE CheckedAdd(shifted, right_load)

\* JungleOperator::apply
Apply(op, left_load, right_load) ==
    CASE op = "Sum" -> CheckedAdd(left_load, right_load)
      [] op = "Product" -> CheckedMul(left_load, right_load)
      [] op = "StringJoin" ->
            IF right_load < 10 THEN ShiftAndAdd(left_load, 10, right_load)
            ELSE IF right_load < 100 THEN ShiftAndAdd(left_load, 100, right_load)
            ELSE LET decimal_shift == CheckedPow(10, DecimalLen(right_load))
                 IN  IF decimal_shift = None THEN None
                     ELSE ShiftAndAdd(left_load, decimal_shift, right_load)

JungleOperators == <<"Sum", "Product", "StringJoin">>

RECURSIVE Pow(_, _)
Pow(base, exp) == IF exp = 0 THEN 1 ELSE base * Pow(base, exp - 1)

\* The operator of slot i (from 0) in combination combo: base 3 with the
\* string join, the bits of combo without.
OperatorAt(combo, i, allow_join) ==
    IF allow_join
    THEN JungleOperators[((combo \div Pow(3, i)) % 3) + 1]
    ELSE IF (combo \div Pow(2, i)) % 2 = 0 THEN "Sum" ELSE "Product"

\* The closure of the general search: current_stress after the slots from i
\* on, None as soon as an operator overflows.
RECURSIVE RunCombo(_, _, _, _, _)
RunCombo(factors, combo, allow_join, i, current_stress) ==
    IF i = Len(factors) - 1 THEN current_stress
    ELSE LET next_stress ==
                 Apply(OperatorAt(combo, i, allow_join), current_stress, factors[i + 2])
         IN  IF next_stress = None THEN None
             ELSE RunCombo(factors, combo, allow_join, i + 1, next_stress)

\* The two-operand arm of is_calibratable.
TwoFactors(a, b, target, allow_join, checks) ==
    IF CheckedAdd(a, b) = None /\ checks THEN "panic"
    ELSE IF WrappingAdd(a, b) = target THEN "true"
    ELSE IF CheckedMul(a, b) = None /\ checks THEN "panic"
    ELSE IF WrappingMul(a, b) = target THEN "true"
    ELSE IF allow_join /\ Apply("StringJoin", a, b) = target THEN "true"
    ELSE "false"

\* The three-operand arm of is_calibratable.  Rust reads a + b * c as
\* a + (b * c) and a * b + c as (a * b) + c.
ThreeFactors(a, b, c, target, allow_join, checks) ==
    IF CheckedMul(b, c) = None /\ checks THEN "panic"
    ELSE IF CheckedAdd(a, WrappingMul(b, c)) = None /\ checks THEN "panic"
    ELSE IF WrappingAdd(a, WrappingMul(b, c)) = target THEN "true"
    ELSE IF CheckedMul(a, b) = None /\ checks THEN "panic"
    ELSE IF CheckedAdd(WrappingMul(a, b), c) = None /\ checks THEN "panic"
    ELSE IF WrappingAdd(WrappingMul(a, b), c) = target THEN "true"
    ELSE IF ~allow_join THEN "false"
    ELSE IF \E op1, op2 \in {"Sum", "Product", "StringJoin"} :
                LET ab == Apply(op1, a, b)
                IN  ab # None /\ Apply(op2, ab, c) = target
         THEN "true"
    ELSE "false"

\* BridgeEquation::is_calibratable: "true", "false", or "panic" when a plain
\* + or * overflows in a build with overflow checks.
IsCalibratable(eq, allow_join, checks) ==
    LET factors == eq.load_factors
        len == Len(factors)
    IN  IF len < 2 THEN "false"
        ELSE IF len = 2
        THEN TwoFactors(factors[1], factors[2], eq.target_stress, allow_join, checks)
        ELSE IF len = 3
        THEN ThreeFactors(factors[1], factors[2], factors[3], eq.target_stress,
                          allow_join, checks)
        ELSE LET operator_slots == len - 1
                 possible_combinations ==
                     IF allow_join THEN Pow(3, operator_slots) ELSE Pow(2, operator_slots)
             IN  IF \E combo \in 0..(possible_combinations - 1) :
                        RunCombo(factors, combo, allow_join, 0, factors[1]) = eq.target_stress
                 THEN "true" ELSE "false"

\* A panic that unwinds out of calculate_*_stress.
Panicked == -2

\* The filter / map / sum chain of calculate_basic_stress (allow_join FALSE)
\* and calculate_advanced_stress (TRUE) over the equations from k on.
RECURSIVE StressFrom(_, _, _, _, _)
StressFrom(eqs, k, allow_join, checks, total) ==
    IF k > Len(eqs) THEN total
    ELSE LET verdict == IsCalibratable(eqs[k], allow_join, checks)
         IN  IF verdict = "panic" THEN Panicked
             ELSE IF verdict = "false"
             THEN StressFrom(eqs, k + 1, allow_join, checks, total)
             ELSE IF CheckedAdd(total, eqs[k].target_stress) = None /\ checks
             THEN Panicked
             ELSE StressFrom(eqs, k + 1, allow_join, checks,
                             WrappingAdd(total, eqs[k].target_stress))

CalculateStress(eqs, allow_join, checks) == StressFrom(eqs, 1, allow_join, checks, 0)

Equation(t, fs) == [target_stress |-> t, load_factors |-> fs]

\* The equations of the repository's own sample (structural_tests).
SAMPLE_SPECS ==
    << Equation(190, <<10, 19>>), Equation(3267, <<81, 40, 27>>),
       Equation(83, <<17, 5>>), Equation(156, <<15, 6>>),
       Equation(7290, <<6, 8, 6, 15>>), Equation(161011, <<16, 10, 13>>),
       Equation(192, <<17, 8, 14>>), Equation(21037, <<9, 7, 18, 13>>),
       Equation(292, <<11, 6, 16, 20>>) >>

\* The inputs of the runs: one equation over Loads and Targets, or up to
\* MaxEquations equations of the sample, or the whole sample.
EquationLists ==
    { <<Equation(t, fs)>> : t \in Targets, fs \in SeqsUpTo(Loads, MaxOperands) }
    \cup SeqsUpTo({SAMPLE_SPECS[i] : i \in 1..Len(SAMPLE_SPECS)}, MaxEquations)
    \cup {SAMPLE_SPECS}

NotAsked == [index |-> 0, allow_string_join |-> FALSE, verdict |-> "none"]

Start7 ==
    /\ equations \in EquationLists
    /\ overflow_checks \in BOOLEAN
    /\ asked = NotAsked
    /\ basic_stress = None
    /\ advanced_stress = None

\* self.equations[index].is_calibratable(allow_string_join)
AskCalibratable(i, allow_join) ==
    /\ i \in 1..Len(equations)
    /\ asked' = [index |-> i, allow_string_join |-> allow_join,
                 verdict |-> IsCalibratable(equations[i], allow_join, overflow_checks)]
    /\ UNCHANGED <<equations, overflow_checks, basic_stress, advanced_stress, others7>>

\* calibrator.calculate_basic_stress()
CalculateBasicStress ==
    /\ basic_stress = None
    /\ basic_stress' = CalculateStress(equations, FALSE, overflow_checks)
    /\ UNCHANGED <<equations, overflow_checks, asked, advanced_stress, others7>>

\* calibrator.calculate_advanced_stress()
CalculateAdvancedStress ==
    /\ advanced_stress = None
    /\ advanced_stress' = CalculateStress(equations, TRUE, overflow_checks)
    /\ UNCHANGED <<equations, overflow_checks, asked, basic_stress, others7>>

\* Day 7 at rest: a calibrator without equations, nothing computed.
Rest7 ==
    /\ equations = <<>>
    /\ overflow_checks = FALSE
    /\ asked = NotAsked
    /\ basic_stress = None
    /\ advanced_stress = None

Next7 ==
    \/ \E i \in 1..MaxEquations, allow_join \in BOOLEAN : AskCalibratable(i, allow_join)
    \/ CalculateBasicStress
    \/ CalculateAdvancedStress

----------------------------------------------------------------------------
\* Left-to-right evaluation in the integers.  A value above U64_MAX is kept
\* as Beyond: it can only come back into range through a product with 0.
Beyond == Panicked - 1

Allowed(allow_join) ==
    IF allow_join THEN {"Sum", "Product", "StringJoin"} ELSE {"Sum", "Product"}

InIntegers(op, l, r) ==
    IF l = Beyond THEN (IF op = "Product" /\ r = 0 THEN 0 ELSE Beyond)
    ELSE CASE op = "Sum" -> IF l > U64_MAX - r THEN Beyond ELSE l + r
           [] op = "Product" -> IF r # 0 /\ l > U64_MAX \div r THEN Beyond ELSE l * r
           [] op = "StringJoin" ->
                LET shift == Pow(10, DecimalLen(r))
                IN  IF l > (U64_MAX - r) \div shift THEN Beyond ELSE l * shift + r

\* The values the operands from position i on can yield from acc.
RECURSIVE Yields(_, _, _, _)
Yields(factors, i, acc, ops) ==
    IF i > Len(factors) THEN {acc}
    ELSE UNION {Yields(factors, i + 1, InIntegers(op, acc, factors[i]), ops) : op \in ops}

\* Some assignment of the allowed operators to the gaps yields the target.
HasAssignment(eq, allow_join) ==
    /\ Len(eq.load_factors) >= 2
    /\ eq.target_stress \in
           Yields(eq.load_factors, 2, eq.load_factors[1], Allowed(allow_join))

RECURSIVE TargetsWithAssignment(_, _, _)
TargetsWithAssignment(eqs, k, allow_join) ==
    IF k > Len(eqs) THEN 0
    ELSE (IF HasAssignment(eqs[k], allow_join) THEN eqs[k].target_stress ELSE 0)
         + TargetsWithAssignment(eqs, k + 1, allow_join)

AskedEquation == equations[asked.index]

\* C2: is_calibratable returns true whenever some left-to-right assignment of
\* the allowed operators yields the target (equations of two or more operands).
C2_CalibratableWhenAssignmentExists ==
    (asked.verdict # "none" /\ HasAssignment(AskedEquation, asked.allow_string_join))
        => asked.verdict = "true"

\* C3: is_calibratable returns true only if some left-to-right assignment
\* yields the target, and the two stress totals are the sums of the targets of
\* exactly the equations that have one.
C3_CalibratableOnlyWithAssignment ==
    /\ asked.verdict = "true" => HasAssignment(AskedEquation, asked.allow_string_join)
    /\ basic_stress # None => basic_stress = TargetsWithAssignment(equations, 1, FALSE)
    /\ advanced_stress # None => advanced_stress = TargetsWithAssignment(equations, 1, TRUE)

\* ---- Day 7 with operands near the end of the u64 range ----

\* The operands and targets of the runs that overflow: U64_MAX + 1 and
\* 65536 * 65536 * 2 wrap around to 0.
LargeLoads == {0, 1, 2, 65536, U64_MAX}
LargeTargets == {0, 1, 65536, U64_MAX}

\* BridgeCalibrator::new over one parsed equation
Start7Large ==
    /\ equations \in { <<Equation(t, fs)>> :
                       t \in LargeTargets, fs \in SeqsUpTo(LargeLoads, MaxOperands) }
    /\ overflow_checks \in BOOLEAN
    /\ asked = NotAsked
    /\ basic_stress = None
    /\ advanced_stress = None

\* x + y and x * y where an operand may already be out of range.
AddInRange(x, y) == IF x = None \/ y = None THEN None ELSE CheckedAdd(x, y)
MulInRange(x, y) == IF x = None \/ y = None THEN None ELSE CheckedMul(x, y)

\* Some operator combination that is_calibratable tries reaches the target
\* with every intermediate value inside the u64 range.
ReachedInRange(eq, allow_join) ==
    LET factors == eq.load_factors
        target == eq.target_stress
    IN  CASE Len(factors) < 2 -> FALSE
          [] Len(factors) = 2 ->
                \/ AddInRange(factors[1], factors[2]) = target
                \/ MulInRange(factors[1], factors[2]) = target
                \/ allow_join /\ Apply("StringJoin", factors[1], factors[2]) = target
          [] Len(factors) = 3 ->
                \/ AddInRange(factors[1], MulInRange(factors[2], factors[3])) = target
                \/ AddInRange(MulInRange(factors[1], factors[2]), factors[3]) = target
                \/ /\ allow_join
                   /\ \E op1, op2 \in Allowed(TRUE) :
                          /\ Apply(op1, factors[1], factors[2]) # None
                          /\ Apply(op2, Apply(op1, factors[1], factors[2]), factors[3])
                                 = target
          [] OTHER ->
                \E combo \in 0..(Pow(IF allow_join THEN 3 ELSE 2, Len(factors) - 1) - 1) :
                    RunCombo(factors, combo, allow_join, 0, factors[1]) = target

\* C24: for every operand count, an operator combination with an
\* intermediate sum, product or concatenation beyond the u64 range counts as
\* not reaching the target and the others are still tried: is_calibratable
\* never aborts on overflow and answers true only when a combination reaches
\* the target inside the range.
C24_OverflowingCombinationIsSkipped ==
    asked.verdict # "none" =>
        asked.verdict = (IF ReachedInRange(AskedEquation, asked.allow_string_join)
                         THEN "true" ELSE "false")

(***************************************************************************)
(* Day 5: printer ordering rules                                           *)
(***************************************************************************)
\* Bound: number of rules in the lore.
MaxLore == 3

\* The page numbers of the runs.  An update holds up to one entry per page
\* number (pages may repeat); a rule names two different pages.
Pages == {1, 2, 3}

Lore(p, d) == [prerequisite |-> p, dependent |-> d]

Rules == {Lore(pd[1], pd[2]) : pd \in {x \in Pages \X Pages : x[1] # x[2]}}

\* The orders in which a hash-based collection may hand out the elements of S.
Orders(S) == {s \in [1..Cardinality(S) -> S] : Range(s) = S}

\* PrinterTome::inscribe: sacred_order maps a prerequisite to its dependents.
Inscribe(rules) ==
    [p \in {rules[i].prerequisite : i \in 1..Len(rules)} |->
        {rules[i].dependent : i \in {j \in 1..Len(rules) : rules[j].prerequisite = p}}]

\* PrinterTome::violates_sacred_order
ViolatesSacredOrder(tome, first_page, second_page) ==
    IF second_page \in DOMAIN tome THEN first_page \in tome[second_page] ELSE FALSE

\* respects_sacred_order
RespectsSacredOrder(pages, rules) ==
    LET tome == Inscribe(rules)
        pages_in_update == Range(pages)
    IN  ~ \E w \in 1..(Len(pages) - 1) :
            /\ ViolatesSacredOrder(tome, pages[w], pages[w + 1])
            /\ pages[w] \in pages_in_update
            /\ pages[w + 1] \in pages_in_update

\* The rules of the lore (by index) whose two pages are both in pages_set.
Binding(rules, pages_set) ==
    {i \in 1..Len(rules) :
        rules[i].prerequisite \in pages_set /\ rules[i].dependent \in pages_set}

\* EnchantedOrderKeeper::summon
SummonDependencies(pages, rules) ==
    [p \in Range(pages) |->
        {rules[i].dependent : i \in {j \in Binding(rules, Range(pages)) : rules[j].prerequisite = p}}]

SummonPrerequisitesCount(pages, rules) ==
    [p \in Range(pages) |->
        Cardinality({i \in Binding(rules, Range(pages)) : rules[i].dependent = p})]

NoKeeper == [p \in {} |-> 0]

Start5 ==
    /\ update \in SeqsUpTo(Pages, Cardinality(Pages))
    /\ lore \in SeqsUpTo(Rules, MaxLore)
    /\ respects = FALSE
    /\ dependencies = NoKeeper
    /\ prerequisites_count = NoKeeper
    /\ ready_pages = <<>>
    /\ sacred_sequence = <<>>
    /\ pc5 = "start"

\* respects_sacred_order(update, lore), as diagnose_enchanted_printer calls it
\* for every update before any rearrangement.
CheckSacredOrder ==
    /\ pc5 = "start"
    /\ respects' = RespectsSacredOrder(update, lore)
    /\ pc5' = "checked"
    /\ UNCHANGED <<update, lore, dependencies, prerequisites_count, ready_pages,
                   sacred_sequence, others5>>

\* EnchantedOrderKeeper::summon(update, lore)
Summon ==
    /\ pc5 = "checked"
    /\ dependencies' = SummonDependencies(update, lore)
    /\ prerequisites_count' = SummonPrerequisitesCount(update, lore)
    /\ pc5' = "summoned"
    /\ UNCHANGED <<update, lore, respects, ready_pages, sacred_sequence, others5>>

\* arrange_pages, first statement: the pages with no pending prerequisite, in
\* the order the HashMap iterates.
CollectReady ==
    /\ pc5 = "summoned"
    /\ ready_pages' \in Orders({p \in DOMAIN prerequisites_count : prerequisites_count[p] = 0})
    /\ pc5' = "arranging"
    /\ UNCHANGED <<update, lore, respects, dependencies, prerequisites_count,
                   sacred_sequence, others5>>

\* arrange_pages, one turn of the while loop: pop a page, append it, lower the
\* count of each of its dependents and queue those that reach zero, in the
\* order the HashSet iterates.
PopReady ==
    /\ pc5 = "arranging"
    /\ ready_pages # <<>>
    /\ LET page == Head(ready_pages)
           dependents == dependencies[page]
           lowered == [p \in DOMAIN prerequisites_count |->
                          IF p \in dependents THEN prerequisites_count[p] - 1
                          ELSE prerequisites_count[p]]
       IN  /\ sacred_sequence' = Append(sacred_sequence, page)
           /\ prerequisites_count' = lowered
           /\ \E pushed \in Orders({p \in dependents : lowered[p] = 0}) :
                  ready_pages' = Tail(ready_pages) \o pushed
    /\ UNCHANGED <<update, lore, respects, dependencies, pc5, others5>>

\* An extension by every page of the update.
EveryPage(pages, sequence) == pages

\* arrange_pages: pages.iter().filter(|page| !arranged_pages.contains(page))
NotArranged(pages, sequence) ==
    LET arranged_pages == Range(sequence)
    IN  SelectSeq(pages, LAMBDA page : page \notin arranged_pages)

\* arrange_pages, after the loop: the pages not arranged, in update order.
ExtendRemaining ==
    /\ pc5 = "arranging"
    /\ ready_pages = <<>>
    /\ sacred_sequence' = sacred_sequence \o NotArranged(update, sacred_sequence)
    /\ pc5' = "done"
    /\ UNCHANGED <<update, lore, respects, dependencies, prerequisites_count,
                   ready_pages, others5>>

\* Day 5 at rest: an empty update, no rules, nothing computed.
Rest5 ==
    /\ update = <<>>
    /\ lore = <<>>
    /\ respects = FALSE
    /\ dependencies = NoKeeper
    /\ prerequisites_count = NoKeeper
    /\ ready_pages = <<>>
    /\ sacred_sequence = <<>>
    /\ pc5 = "start"

Next5 ==
    \/ CheckSacredOrder
    \/ Summon
    \/ CollectReady
    \/ PopReady
    \/ ExtendRemaining

----------------------------------------------------------------------------
\* The rules whose two pages both occur in the update.
RulesOfUpdate == {lore[i] : i \in Binding(lore, Range(update))}

\* In sequence s, every occurrence of the prerequisite of rule r comes before
\* every occurrence of its dependent.
InOrder(s, r) ==
    \A i, j \in 1..Len(s) :
        (s[i] = r.prerequisite /\ s[j] = r.dependent) => i < j

DistinctPages(s) == \A i, j \in 1..Len(s) : s[i] = s[j] => i = j

\* p reaches q along rules of the update.
RECURSIVE ReachesIn(_, _, _)
ReachesIn(p, q, n) ==
    \/ \E r \in RulesOfUpdate : r.prerequisite = p /\ r.dependent = q
    \/ /\ n > 0
       /\ \E r \in RulesOfUpdate : r.prerequisite = p /\ ReachesIn(r.dependent, q, n - 1)

Acyclic == \A p \in Range(update) : ~ReachesIn(p, p, Cardinality(Pages))

IsPermutation(s, t) ==
    /\ Len(s) = Len(t)
    /\ \A p \in Range(s) \cup Range(t) :
           Cardinality({i \in 1..Len(s) : s[i] = p}) = Cardinality({i \in 1..Len(t) : t[i] = p})

\* C4: respects_sacred_order is true exactly when every rule with both pages
\* in the update has its prerequisite before its dependent.
C4_RespectsIffEveryRuleInOrder ==
    pc5 # "start" =>
        (respects <=> \A r \in RulesOfUpdate : InOrder(update, r))

\* C5: for distinct pages and acyclic rules of the update, summon followed by
\* arrange_pages returns a permutation of the update with every such rule's
\* prerequisite before its dependent.
C5_ArrangedIsOrderedPermutation ==
    (pc5 = "done" /\ DistinctPages(update) /\ Acyclic) =>
        /\ IsPermutation(sacred_sequence, update)
        /\ \A r \in RulesOfUpdate : InOrder(sacred_sequence, r)

\* The pages whose count of pending prerequisites is zero.
Released == {p \in DOMAIN prerequisites_count : prerequisites_count[p] = 0}

\* C26: arrange_pages terminates for every update and rule list, cycles among
\* the update's pages included; the pages that never reach zero pending
\* prerequisites follow the scheduled pages in their order in the update, and
\* for an update of distinct pages the result holds each page exactly once.
C26_ArrangeTerminatesWithEveryPage ==
    /\ [](\A p \in DOMAIN prerequisites_count : prerequisites_count[p] >= 0)
    /\ [](pc5 = "done" =>
            /\ Len(sacred_sequence) >= Cardinality(Released)
            /\ Range(SubSeq(sacred_sequence, 1, Cardinality(Released))) = Released
            /\ SubSeq(sacred_sequence, Cardinality(Released) + 1, Len(sacred_sequence))
                   = SelectSeq(update, LAMBDA page : page \notin Released)
            /\ DistinctPages(update) => IsPermutation(sacred_sequence, update))
    /\ <>(pc5 = "done")

\* C26 witness: arrange_pages has returned for an update of three distinct
\* pages with a cycle among them, one page scheduled and two appended, in an
\* order that is not the ascending one.
C26_Witness_CycleAppended ==
    /\ pc5 = "done"
    /\ DistinctPages(update) /\ Len(update) = 3
    /\ ~Acyclic
    /\ Cardinality(Released) = 1
    /\ sacred_sequence[2] > sacred_sequence[3]

(***************************************************************************)
(* Day 2: reactor safety reports                                           *)
(***************************************************************************)
\* Bounds: levels of one report, reports handled in one run.
MaxLevels == 4
MaxReports == 2

I32_MAX == 2147483647
I32_MIN == -I32_MAX - 1

\* The levels of the runs: two neighbouring values and the two ends of i32.
Levels == {1, 2, I32_MIN, I32_MAX}

\* window[1] - window[0] on i32: whether it overflows, and the wrapped result
\* (computed without leaving the i32 range).
SubOverflows(a, b) ==
    \/ b > 0 /\ a < I32_MIN + b
    \/ b < 0 /\ a > I32_MAX + b

WrappingSub(a, b) ==
    IF b > 0 /\ a < I32_MIN + b THEN (a - I32_MIN) + (I32_MAX - b) + 1
    ELSE IF b < 0 /\ a > I32_MAX + b THEN (a - I32_MAX) + (I32_MIN - b) - 1
    ELSE a - b

\* i32::abs: overflows for i32::MIN, and then wraps to i32::MIN.
AbsOverflows(d) == d = I32_MIN
WrappingAbs(d) == IF d = I32_MIN THEN I32_MIN ELSE IF d < 0 THEN -d ELSE d

\* check_sequence_safety, the windows from w on: "true", "false", or "panic"
\* when a subtraction or abs overflows in a build with overflow checks.
RECURSIVE CheckWindows(_, _, _, _)
CheckWindows(ls, w, is_increasing, checks) ==
    IF w > Len(ls) - 1 THEN "true"
    ELSE IF SubOverflows(ls[w + 1], ls[w]) /\ checks THEN "panic"
    ELSE LET diff == WrappingSub(ls[w + 1], ls[w])
         IN  IF AbsOverflows(diff) /\ checks THEN "panic"
             ELSE IF WrappingAbs(diff) < 1 \/ WrappingAbs(diff) > 3 THEN "false"
             ELSE IF is_increasing = "none"
             THEN CheckWindows(ls, w + 1, IF diff > 0 THEN "yes" ELSE "no", checks)
             ELSE IF (diff > 0) # (is_increasing = "yes") THEN "false"
             ELSE CheckWindows(ls, w + 1, is_increasing, checks)

\* check_sequence_safety
CheckSequenceSafety(ls, checks) ==
    IF Len(ls) < 2 THEN "true" ELSE CheckWindows(ls, 1, "none", checks)

\* The report without the level at (0-based) skip_idx.
Dampened(ls, skip_idx) ==
    [i \in 1..(Len(ls) - 1) |-> IF i <= skip_idx THEN ls[i] ELSE ls[i + 1]]

\* analyze_safety_report, the Problem Dampener loop from skip_idx on.
RECURSIVE DampenerFrom(_, _, _)
DampenerFrom(ls, skip_idx, checks) ==
    IF skip_idx >= Len(ls) THEN "false"
    ELSE LET safe == CheckSequenceSafety(Dampened(ls, skip_idx), checks)
         IN  IF safe = "false" THEN DampenerFrom(ls, skip_idx + 1, checks) ELSE safe

\* analyze_safety_report without its counters: is the report counted as safe.
ReportVerdict(ls, checks) ==
    LET safe == CheckSequenceSafety(ls, checks)
    IN  IF safe = "false" THEN DampenerFrom(ls, 0, checks) ELSE safe

NoLevels == <<>>

Start2 ==
    /\ total_reports = 0
    /\ safe_reports = 0
    /\ levels = NoLevels
    /\ crashed = FALSE
    /\ overflow_checks2 \in BOOLEAN
    /\ handled = 0
    /\ due_safe = 0

----------------------------------------------------------------------------
\* The safety rule in the integers.
StepUp(a, b) == a < b /\ (a > I32_MAX - 3 \/ b <= a + 3)

Rising(ls) == \A w \in 1..(Len(ls) - 1) : StepUp(ls[w], ls[w + 1])
Falling(ls) == \A w \in 1..(Len(ls) - 1) : StepUp(ls[w + 1], ls[w])

\* Strictly increasing or strictly decreasing by steps of 1 to 3, as it is or
\* after removing exactly one level.
SafeReport(ls) ==
    \/ Rising(ls) \/ Falling(ls)
    \/ \E k \in 0..(Len(ls) - 1) : Rising(Dampened(ls, k)) \/ Falling(Dampened(ls, k))

----------------------------------------------------------------------------
\* The ReactorLevels handler: agent.model.analyze_safety_report(message.0).
\* A panic leaves the counter already raised and ends the analyzer.
AnalyzeSafetyReport(ls) ==
    /\ ~crashed
    /\ total_reports < MaxReports
    /\ levels' = ls
    /\ total_reports' = total_reports + 1
    /\ LET verdict == ReportVerdict(ls, overflow_checks2)
       IN  /\ safe_reports' = IF verdict = "true" THEN safe_reports + 1 ELSE safe_reports
           /\ crashed' = (verdict = "panic")
    /\ handled' = handled + 1
    /\ due_safe' = IF SafeReport(ls) THEN due_safe + 1 ELSE due_safe
    /\ UNCHANGED <<overflow_checks2, others2>>

\* Day 2 at rest: the default analyzer.
Rest2 ==
    /\ total_reports = 0
    /\ safe_reports = 0
    /\ levels = NoLevels
    /\ crashed = FALSE
    /\ overflow_checks2 = FALSE
    /\ handled = 0
    /\ due_safe = 0

Next2 == \E ls \in SeqsUpTo(Levels, MaxLevels) : AnalyzeSafetyReport(ls)

\* C6: after any sequence of reports, total_reports is the number of reports
\* processed and safe_reports the number of them that are safe under the
\* rule, as they are or after removing exactly one level.
C6_CountsMatchTheRule ==
    /\ ~crashed
    /\ total_reports = handled
    /\ safe_reports = due_safe

(***************************************************************************)
(* Day 6: guard patrol                                                     *)
(***************************************************************************)
\* Bound: number of obstacles on the map.
MaxObstacles == 3

\* The map sizes of the runs, as <<height, width>>.
LabSizes == {<<3, 4>>}

\* TemporalCoordinate::new(y, x)
TemporalCoordinate(y, x) == [timeline_y |-> y, timeline_x |-> x]

\* enum PatrolVector as u8
Northward == 0
Eastward == 1
Southward == 2
Westward == 3

\* TEMPORAL_SHIFTS and PROTOCOL_ROTATION, indexed by the vector (from 0)
TEMPORAL_SHIFTS == << <<-1, 0>>, <<0, 1>>, <<1, 0>>, <<0, -1>> >>
PROTOCOL_ROTATION == <<Eastward, Southward, Westward, Northward>>

\* A guard that turns left where the protocol turns right.
TurnLeft(vector) == (vector + 3) % 4

\* PatrolVector::follow_protocol, PatrolVector::calculate_movement
FollowProtocol(vector) == PROTOCOL_ROTATION[vector + 1]
CalculateMovement(vector) == TEMPORAL_SHIFTS[vector + 1]

\* u8::checked_add_signed(d).unwrap_or(255)
CheckedAddSigned(v, d) == IF v + d < 0 \/ v + d > 255 THEN 255 ELSE v + d

\* The cell one step from pos along vector.
NextPos(pos, vector) ==
    TemporalCoordinate(CheckedAddSigned(pos.timeline_y, CalculateMovement(vector)[1]),
                       CheckedAddSigned(pos.timeline_x, CalculateMovement(vector)[2]))

\* TemporalLab::quantum_index: the bit of a cell.  The lab's quantum_state
\* is kept as the set of the bits that are 1.
QuantumIndex(l, pos) == pos.timeline_y * l.time_width + pos.timeline_x

\* TemporalLab::exists_in_timeline
ExistsInTimeline(l, pos) ==
    pos.timeline_y < l.time_height /\ pos.timeline_x < l.time_width

\* TemporalLab::has_obstacle
HasObstacle(l, pos) ==
    IF ~ExistsInTimeline(l, pos) THEN FALSE
    ELSE QuantumIndex(l, pos) \in l.quantum_state

\* The cells of a lab, row by row.
Cells(l) ==
    {TemporalCoordinate(y, x) : y \in 0..(l.time_height - 1), x \in 0..(l.time_width - 1)}

\* TemporalLab::new followed by manifest_obstacle for every cell of obstacles
LabOf(height, width, obstacles) ==
    [time_height |-> height, time_width |-> width,
     quantum_state |-> {p.timeline_y * width + p.timeline_x : p \in obstacles}]

\* A tracker index that leaves the heading out.
IndexOfCell(slice, width) ==
    (slice.location.timeline_y * width + slice.location.timeline_x) * 4

\* ParadoxTracker::calculate_index; the tracker's quantum_memory is kept as
\* the set of the bits that are 1.
CalculateIndex(slice, width) ==
    (slice.location.timeline_y * width + slice.location.timeline_x) * 4 + slice.heading

\* ParadoxTracker::contains, ParadoxTracker::record
Contains(memory, slice, width) == CalculateIndex(slice, width) \in memory
Record(memory, slice, width) == memory \cup {CalculateIndex(slice, width)}

TimeSlice(location, heading) == [location |-> location, heading |-> heading]

\* The maps read_temporal_map can build: obstacles on some cells, the guard on
\* a cell that holds none.
Labs ==
    UNION { { LabOf(hw[1], hw[2], obstacles) :
                obstacles \in {o \in SUBSET Cells(LabOf(hw[1], hw[2], {})) :
                                  Cardinality(o) <= MaxObstacles} } :
            hw \in LabSizes }

\* The candidates of the runs: every cell and one coordinate off the map.
Candidates(l) == Cells(l) \cup {TemporalCoordinate(l.time_height, l.time_width)}

Start6 ==
    /\ lab \in Labs
    /\ origin \in {p \in Cells(lab) : ~HasObstacle(lab, p)}
    /\ pc6 = "idle"
    /\ current_pos = origin
    /\ current_vector = Northward
    /\ time_points = {}
    /\ paradox_point = origin
    /\ current_state = TimeSlice(origin, Northward)
    /\ quantum_memory = {}
    /\ time_loop = "none"

\* trace_patrol_route(lab, origin, Northward), up to the loop
BeginPatrol ==
    /\ pc6 = "idle"
    /\ current_pos' = origin
    /\ current_vector' = Northward
    /\ time_points' = {origin}
    /\ pc6' = "tracing"
    /\ UNCHANGED <<lab, origin, paradox_point, current_state, quantum_memory, time_loop,
                   others6>>

\* trace_patrol_route, one turn of the loop
PatrolStep ==
    /\ pc6 = "tracing"
    /\ LET next_pos == NextPos(current_pos, current_vector)
       IN  IF ~ExistsInTimeline(lab, next_pos)
           THEN /\ pc6' = "traced"
                /\ UNCHANGED <<current_pos, current_vector, time_points>>
           ELSE IF HasObstacle(lab, next_pos)
           THEN /\ current_vector' = FollowProtocol(current_vector)
                /\ UNCHANGED <<pc6, current_pos, time_points>>
           ELSE /\ current_pos' = next_pos
                /\ time_points' = time_points \cup {next_pos}
                /\ UNCHANGED <<pc6, current_vector>>
    /\ UNCHANGED <<lab, origin, paradox_point, current_state, quantum_memory, time_loop,
                   others6>>

\* An early return that lets the origin pass.
RejectedOffRoute(l, o, point) ==
    ~ExistsInTimeline(l, point) \/ HasObstacle(l, point)

\* simulate_timeline_with_obstacle: the condition of the early return
Rejected(l, o, point) ==
    \/ ~ExistsInTimeline(l, point)
    \/ HasObstacle(l, point)
    \/ point = o

\* simulate_timeline_with_obstacle(lab, origin, Northward, point, tracker), up
\* to the loop: the early return, or the tracker reset and the first state.
BeginTimeline(point) ==
    /\ pc6 \in {"idle", "traced"}
    /\ paradox_point' = point
    /\ IF Rejected(lab, origin, point)
       THEN /\ time_loop' = "false"
            /\ pc6' = "simulated"
            /\ UNCHANGED <<current_state, quantum_memory>>
       ELSE /\ quantum_memory' = {}
            /\ current_state' = TimeSlice(origin, Northward)
            /\ time_loop' = "none"
            /\ pc6' = "simulating"
    /\ UNCHANGED <<lab, origin, current_pos, current_vector, time_points, others6>>

\* simulate_timeline_with_obstacle, one turn of the loop
TimelineStep ==
    /\ pc6 = "simulating"
    /\ IF Contains(quantum_memory, current_state, lab.time_width)
       THEN /\ time_loop' = "true"
            /\ pc6' = "simulated"
            /\ UNCHANGED <<current_state, quantum_memory>>
       ELSE /\ quantum_memory' = Record(quantum_memory, current_state, lab.time_width)
            /\ LET next_pos == NextPos(current_state.location, current_state.heading)
               IN  IF ~ExistsInTimeline(lab, next_pos)
                   THEN /\ time_loop' = "false"
                        /\ pc6' = "simulated"
                        /\ UNCHANGED current_state
                   ELSE IF HasObstacle(lab, next_pos) \/ next_pos = paradox_point
                   THEN /\ current_state' =
                               TimeSlice(current_state.location,
                                         FollowProtocol(current_state.heading))
                        /\ UNCHANGED <<time_loop, pc6>>
                   ELSE /\ current_state' = TimeSlice(next_pos, current_state.heading)
                        /\ UNCHANGED <<time_loop, pc6>>
    /\ UNCHANGED <<lab, origin, paradox_point, current_pos, current_vector, time_points,
                   others6>>

\* Day 6 at rest: a map of one free cell with the guard on it.
Rest6 ==
    /\ lab = LabOf(1, 1, {})
    /\ origin = TemporalCoordinate(0, 0)
    /\ pc6 = "idle"
    /\ current_pos = origin
    /\ current_vector = Northward
    /\ time_points = {}
    /\ paradox_point = origin
    /\ current_state = TimeSlice(origin, Northward)
    /\ quantum_memory = {}
    /\ time_loop = "none"

Next6 ==
    \/ BeginPatrol
    \/ PatrolStep
    \/ \E point \in Candidates(lab) : BeginTimeline(point)
    \/ TimelineStep

\* ---- the walk the rules describe, over the integers ----

\* Turning right: north -> east -> south -> west -> north.
TurnRight(d) == (d + 1) % 4

\* The cell in front of p when facing d; rows grow to the south, columns to
\* the east.
Ahead(p, d) ==
    CASE d = 0 -> [timeline_y |-> p.timeline_y - 1, timeline_x |-> p.timeline_x]
      [] d = 1 -> [timeline_y |-> p.timeline_y, timeline_x |-> p.timeline_x + 1]
      [] d = 2 -> [timeline_y |-> p.timeline_y + 1, timeline_x |-> p.timeline_x]
      [] d = 3 -> [timeline_y |-> p.timeline_y, timeline_x |-> p.timeline_x - 1]

InsideGrid(l, p) ==
    /\ p.timeline_y \in 0..(l.time_height - 1)
    /\ p.timeline_x \in 0..(l.time_width - 1)

\* The cells of the map that hold an obstacle.
ObstacleCells(l) ==
    {p \in Cells(l) : (p.timeline_y * l.time_width + p.timeline_x) \in l.quantum_state}

\* The number of (cell, heading) pairs of a map: a walk of that many steps
\* has left the map or is inside a cycle it has gone round completely.
WalkFuel(l) == 4 * l.time_height * l.time_width

\* The cells a guard occupies who starts on p facing d and walks for at most
\* fuel steps among the obstacles blocked.
RECURSIVE WalkCells(_, _, _, _, _)
WalkCells(l, blocked, p, d, fuel) ==
    IF fuel = 0 \/ ~InsideGrid(l, Ahead(p, d)) THEN {p}
    ELSE IF Ahead(p, d) \in blocked THEN WalkCells(l, blocked, p, TurnRight(d), fuel - 1)
    ELSE {p} \cup WalkCells(l, blocked, Ahead(p, d), d, fuel - 1)

\* Whether that guard steps off the map within fuel steps.
RECURSIVE WalkLeaves(_, _, _, _, _)
WalkLeaves(l, blocked, p, d, fuel) ==
    IF ~InsideGrid(l, Ahead(p, d)) THEN TRUE
    ELSE IF fuel = 0 THEN FALSE
    ELSE IF Ahead(p, d) \in blocked THEN WalkLeaves(l, blocked, p, TurnRight(d), fuel - 1)
    ELSE WalkLeaves(l, blocked, Ahead(p, d), d, fuel - 1)

\* The (cell, heading) pairs of that walk, as tracker bits.
RECURSIVE WalkStates(_, _, _, _, _)
WalkStates(l, blocked, p, d, fuel) ==
    {<<p, d>>} \cup
    (IF fuel = 0 \/ ~InsideGrid(l, Ahead(p, d)) THEN {}
     ELSE IF Ahead(p, d) \in blocked THEN WalkStates(l, blocked, p, TurnRight(d), fuel - 1)
     ELSE WalkStates(l, blocked, Ahead(p, d), d, fuel - 1))

\* C7: while trace_patrol_route runs and when it has returned, its set holds
\* the origin, holds no obstacle cell and no cell outside the grid, and holds
\* only cells which the walk from the origin heading north (turn right in
\* place before an obstacle, else one cell forward, stop when the next cell is
\* outside the grid) occupies; when it has returned the set is exactly the
\* cells of that walk, the walk has left the grid, and the guard stands on the
\* cell from which the next step leaves.
C7_RouteIsTheCellsOfTheWalk ==
    pc6 \in {"tracing", "traced"} =>
        /\ origin \in time_points
        /\ current_pos \in time_points
        /\ \A p \in time_points : InsideGrid(lab, p) /\ p \notin ObstacleCells(lab)
        /\ time_points \subseteq
               WalkCells(lab, ObstacleCells(lab), origin, 0, WalkFuel(lab))
        /\ pc6 = "traced" =>
               /\ time_points = WalkCells(lab, ObstacleCells(lab), origin, 0, WalkFuel(lab))
               /\ WalkLeaves(lab, ObstacleCells(lab), origin, 0, WalkFuel(lab))
               /\ ~InsideGrid(lab, Ahead(current_pos, current_vector))

\* C7 witness: a patrol that has returned after turning before an obstacle
\* and moving on to other cells.
C7_Witness_TurnedAndLeft ==
    /\ pc6 = "traced"
    /\ current_vector # Northward
    /\ Cardinality(time_points) >= 4
    /\ ObstacleCells(lab) # {}

\* The candidate of the running simulation can hold an obstacle.
ValidCandidate ==
    /\ InsideGrid(lab, paradox_point)
    /\ paradox_point \notin ObstacleCells(lab)
    /\ paradox_point # origin

\* The obstacles of the simulation: those of the map and the candidate.
WithCandidate == ObstacleCells(lab) \cup {paradox_point}

\* The verdict of simulate_timeline_with_obstacle is right once it has
\* returned, and before that it has recorded only states of the walk.
VerdictIsRight ==
    /\ pc6 = "simulated" /\ ~ValidCandidate =>
           /\ time_loop = "false"
           /\ quantum_memory = {}
           /\ current_state = TimeSlice(origin, Northward)
    /\ pc6 = "simulated" /\ ValidCandidate =>
           /\ time_loop \in {"true", "false"}
           /\ time_loop = "false" <=>
                  WalkLeaves(lab, WithCandidate, origin, 0, WalkFuel(lab))
           /\ time_loop = "true" =>
                  /\ CalculateIndex(current_state, lab.time_width) \in quantum_memory
                  /\ <<current_state.location, current_state.heading>> \in
                         WalkStates(lab, WithCandidate, origin, 0, WalkFuel(lab))
           /\ time_loop = "false" =>
                  ~InsideGrid(lab, Ahead(current_state.location, current_state.heading))
    /\ pc6 = "simulating" => ValidCandidate /\ time_loop = "none"

\* C8: simulate_timeline_with_obstacle always returns; for a candidate that
\* is the origin, an obstacle or outside the grid it returns false without
\* recording a state or moving; otherwise it returns false exactly when the
\* guard, walking among the obstacles and the candidate, steps off the grid,
\* and true exactly when it does not, having come back to a (cell, heading)
\* state it had recorded.
C8_TimelineTerminatesWithRightVerdict ==
    /\ [](VerdictIsRight)
    /\ (pc6 = "simulating") ~> (pc6 = "simulated")

\* C8 witness: a simulation that returned true after the guard had moved
\* round a cycle of more than one cell.
C8_Witness_LoopFound ==
    /\ pc6 = "simulated"
    /\ time_loop = "true"
    /\ current_state.location # origin
    /\ Cardinality(quantum_memory) >= 6

----------------------------------------------------------------------------
\* Day 6, calculate_paradox_points: the candidates in chunks, one tracker for
\* each chunk.

\* par_chunks(256)
CHUNK == 256

\* The chunk lengths of the runs: the source's, which leaves the small maps
\* of the runs in one chunk, and a length that splits them as 256 splits a
\* large map.
ChunkLengths == {4, CHUNK}

\* TemporalLab::map_safe_coordinates: the free cells other than the origin,
\* row by row
SafeIndexes(l, o) ==
    {i \in 0..(l.time_height * l.time_width - 1) :
        /\ TemporalCoordinate(i \div l.time_width, i % l.time_width) # o
        /\ ~HasObstacle(l, TemporalCoordinate(i \div l.time_width, i % l.time_width))}

MapSafeCoordinates(l, o) ==
    [k \in 1..Cardinality(SafeIndexes(l, o)) |->
        LET i == CHOOSE i \in SafeIndexes(l, o) :
                     Cardinality({j \in SafeIndexes(l, o) : j < i}) = k - 1
        IN  TemporalCoordinate(i \div l.time_width, i % l.time_width)]

\* A tracker that is never cleared.
KeepTimeline(memory) == memory

\* ParadoxTracker::reset_timeline
ResetTimeline(memory) == {}

\* simulate_timeline_with_obstacle, the loop from a time slice on: the value
\* returned and the tracker left behind
RECURSIVE SimulateLoop(_, _, _, _)
SimulateLoop(l, point, memory, slice) ==
    IF Contains(memory, slice, l.time_width)
    THEN [time_loop |-> TRUE, quantum_memory |-> memory]
    ELSE LET next_pos == NextPos(slice.location, slice.heading)
         IN  IF ~ExistsInTimeline(l, next_pos)
             THEN [time_loop |-> FALSE,
                   quantum_memory |-> Record(memory, slice, l.time_width)]
             ELSE IF HasObstacle(l, next_pos) \/ next_pos = point
             THEN SimulateLoop(l, point, Record(memory, slice, l.time_width),
                               TimeSlice(slice.location, FollowProtocol(slice.heading)))
             ELSE SimulateLoop(l, point, Record(memory, slice, l.time_width),
                               TimeSlice(next_pos, slice.heading))

\* simulate_timeline_with_obstacle(lab, origin, Northward, point, tracker)
SimulateTimelineWithObstacle(l, o, point, memory) ==
    IF Rejected(l, o, point)
    THEN [time_loop |-> FALSE, quantum_memory |-> memory]
    ELSE SimulateLoop(l, point, ResetTimeline(memory), TimeSlice(o, Northward))

\* The closure of one chunk: the values simulate_timeline_with_obstacle
\* returns for the candidates from the k-th on, with the tracker as the
\* candidates before them left it
RECURSIVE FilterChunk(_, _, _, _, _)
FilterChunk(l, o, chunk, k, memory) ==
    IF k > Len(chunk) THEN <<>>
    ELSE LET simulated == SimulateTimelineWithObstacle(l, o, chunk[k], memory)
         IN  <<simulated.time_loop>>
             \o FilterChunk(l, o, chunk, k + 1, simulated.quantum_memory)

\* par_chunks: the number of chunks and the c-th chunk (from 1)
ChunkCount(coordinates, len) == (Len(coordinates) + len - 1) \div len
ParChunk(coordinates, len, c) ==
    [k \in 1..(IF c * len <= Len(coordinates) THEN len
               ELSE Len(coordinates) - (c - 1) * len) |->
        coordinates[(c - 1) * len + k]]

\* .filter(..).count() of one chunk
CountOf(values) == Cardinality({k \in 1..Len(values) : values[k]})

\* .sum() over the chunks up to the c-th
RECURSIVE SumCounts(_, _)
SumCounts(values, c) ==
    IF c = 0 THEN 0 ELSE SumCounts(values, c - 1) + CountOf(values[c])

Start6p ==
    /\ safe_coordinates = MapSafeCoordinates(lab, origin)
    /\ chunk_len \in ChunkLengths
    /\ filtered = [c \in {} |-> <<>>]
    /\ paradox_count = -1

\* One worker runs the closure of one chunk with a tracker of its own.
RunChunk(c) ==
    /\ pc6 = "traced"
    /\ paradox_count = -1
    /\ c \notin DOMAIN filtered
    /\ filtered' = [d \in DOMAIN filtered \cup {c} |->
                       IF d = c
                       THEN FilterChunk(lab, origin,
                                        ParChunk(safe_coordinates, chunk_len, c), 1, {})
                       ELSE filtered[d]]
    /\ UNCHANGED <<safe_coordinates, chunk_len, paradox_count, vars6, others6p>>

\* .sum(), when every chunk is done
SumChunks ==
    /\ pc6 = "traced"
    /\ paradox_count = -1
    /\ DOMAIN filtered = 1..ChunkCount(safe_coordinates, chunk_len)
    /\ paradox_count' = SumCounts(filtered, ChunkCount(safe_coordinates, chunk_len))
    /\ UNCHANGED <<safe_coordinates, chunk_len, filtered, vars6, others6p>>

\* Day 6 before map_safe_coordinates is called.
Rest6p ==
    /\ safe_coordinates = <<>>
    /\ chunk_len = CHUNK
    /\ filtered = [c \in {} |-> <<>>]
    /\ paradox_count = -1

Next6p ==
    \/ BeginPatrol
    \/ PatrolStep
    \/ \E c \in 1..ChunkCount(safe_coordinates, chunk_len) : RunChunk(c)
    \/ SumChunks

\* The safe coordinates for which a simulation with a tracker of its own
\* answers true.
ParadoxPoints ==
    {k \in 1..Len(safe_coordinates) :
        SimulateTimelineWithObstacle(lab, origin, safe_coordinates[k], {}).time_loop}

\* C21: calculate_paradox_points returns the number of safe coordinates for
\* which simulate_timeline_with_obstacle is true, whatever the chunk length
\* and the order in which the chunks are run, and within a chunk every
\* simulation answers as it does with a tracker no simulation has used.
C21_ChunksCountParadoxPoints ==
    LET points == ParadoxPoints
    IN  /\ \A c \in DOMAIN filtered :
               /\ Len(filtered[c]) = Len(ParChunk(safe_coordinates, chunk_len, c))
               /\ \A k \in 1..Len(filtered[c]) :
                      filtered[c][k] <=> ((c - 1) * chunk_len + k) \in points
        /\ paradox_count # -1 => paradox_count = Cardinality(points)
        /\ \A k \in 1..Len(safe_coordinates) :
               (k \in points) <=>
                   ~WalkLeaves(lab, ObstacleCells(lab) \cup {safe_coordinates[k]},
                               origin, 0, WalkFuel(lab))

\* C21 witness: the counts of several chunks were added up, and in one chunk
\* a simulation that found a loop was followed by one that found none.
C21_Witness_TrackerReused ==
    /\ paradox_count >= 1
    /\ ChunkCount(safe_coordinates, chunk_len) >= 2
    /\ \E c \in DOMAIN filtered : \E i, j \in 1..Len(filtered[c]) :
           i < j /\ filtered[c][i] /\ ~filtered[c][j]

\* C28: every cell for which simulate_timeline_with_obstacle returns true
\* lies on the route trace_patrol_route returned and is not the origin, so
\* the number of paradox points is at most the patrol coverage minus one.
C28_ParadoxPointsLieOnTheRoute ==
    pc6 = "traced" =>
        /\ \A c \in DOMAIN filtered : \A k \in 1..Len(filtered[c]) :
               filtered[c][k] =>
                   /\ ParChunk(safe_coordinates, chunk_len, c)[k] \in time_points
                   /\ ParChunk(safe_coordinates, chunk_len, c)[k] # origin
        /\ \A point \in Candidates(lab) :
               SimulateTimelineWithObstacle(lab, origin, point, {}).time_loop =>
                   point \in time_points /\ point # origin
        /\ paradox_count # -1 => paradox_count <= Cardinality(time_points) - 1

\* C28 witness: a patrol that covers only a part of the free cells, with a
\* paradox point on it.
C28_Witness_PointOnShortRoute ==
    /\ pc6 = "traced"
    /\ paradox_count >= 1
    /\ Cardinality(time_points) < Len(safe_coordinates)

(***************************************************************************)
(* Day 9: disk compaction                                                  *)
(***************************************************************************)
\* Bound: number of digits of the disk map.
MaxMapLen == 6

\* The digits of the disk maps of the runs.
Lengths == {0, 1, 2, 3}

\* Option<FileBlock>: Some(FileBlock { id, size }) and None.  Positions count
\* from 1 here and from 0 in the source; 0 stands for "no position".
FileBlock(id, size) == [id |-> id, size |-> size]
Free == [id |-> -1, size |-> 0]
IsNone(block) == block = Free

Fill(n, block) == [k \in 1..n |-> block]

\* DiskState::new, from the i-th digit on
RECURSIVE DiskNewFrom(_, _, _)
DiskNewFrom(map, i, next_id) ==
    IF i > Len(map) THEN <<>>
    ELSE IF (i - 1) % 2 = 0
    THEN Fill(map[i], FileBlock(next_id, map[i])) \o DiskNewFrom(map, i + 1, next_id + 1)
    ELSE Fill(map[i], Free) \o DiskNewFrom(map, i + 1, next_id)

DiskNew(map) == DiskNewFrom(map, 1, 0)

\* compact_blocks: the last free position (where the source takes the first).
LastNone(bl) ==
    IF \E p \in 1..Len(bl) : IsNone(bl[p])
    THEN CHOOSE p \in 1..Len(bl) :
             IsNone(bl[p]) /\ \A q \in 1..Len(bl) : IsNone(bl[q]) => q <= p
    ELSE 0

\* compact_blocks: for pos in (0..total_len).rev(), the first Some
RightmostFile(bl) ==
    IF \E p \in 1..Len(bl) : ~IsNone(bl[p])
    THEN CHOOSE p \in 1..Len(bl) :
             ~IsNone(bl[p]) /\ \A q \in 1..Len(bl) : ~IsNone(bl[q]) => q <= p
    ELSE 0

\* compact_blocks: self.blocks.iter().position(|block| block.is_none())
FirstNone(bl) ==
    IF \E p \in 1..Len(bl) : IsNone(bl[p])
    THEN CHOOSE p \in 1..Len(bl) :
             IsNone(bl[p]) /\ \A q \in 1..Len(bl) : IsNone(bl[q]) => p <= q
    ELSE 0

\* compact_files: max_id
MaxId(bl) ==
    IF \E p \in 1..Len(bl) : ~IsNone(bl[p])
    THEN CHOOSE m \in {bl[p].id : p \in 1..Len(bl)} :
             \A p \in 1..Len(bl) : bl[p].id <= m
    ELSE 0

\* compact_files: start_pos
FirstOfFile(bl, id) ==
    IF \E p \in 1..Len(bl) : bl[p].id = id
    THEN CHOOSE p \in 1..Len(bl) :
             bl[p].id = id /\ \A q \in 1..Len(bl) : bl[q].id = id => p <= q
    ELSE 0

\* compact_files: the first free position left of the file, whatever the
\* length of its run (where the source asks for a run of the file's size).
FirstNoneBefore(bl, start_pos, file_size) ==
    IF \E p \in 1..(start_pos - 1) : IsNone(bl[p])
    THEN CHOOSE p \in 1..(start_pos - 1) :
             IsNone(bl[p]) /\ \A q \in 1..(start_pos - 1) : IsNone(bl[q]) => p <= q
    ELSE 0

\* compact_files: the scan for the leftmost viable free space, from pos on
RECURSIVE ScanFree(_, _, _, _, _, _)
ScanFree(bl, pos, start_pos, current_free, free_start, file_size) ==
    IF pos > Len(bl) \/ pos >= start_pos THEN 0
    ELSE IF IsNone(bl[pos])
    THEN LET start == IF current_free = 0 THEN pos ELSE free_start
         IN  IF current_free + 1 >= file_size THEN start
             ELSE ScanFree(bl, pos + 1, start_pos, current_free + 1, start, file_size)
    ELSE ScanFree(bl, pos + 1, start_pos, 0, 0, file_size)

\* compact_files: target_pos of the file that starts at start_pos, 0 if the
\* scan ends without one
FindFreeSpace(bl, start_pos, file_size) == ScanFree(bl, 1, start_pos, 0, 0, file_size)

\* compact_files: clear the old blocks, then place the file at target_pos
MoveFile(bl, start_pos, target_pos, id, file_size) ==
    [i \in 1..Len(bl) |->
        IF i \in target_pos..(target_pos + file_size - 1) THEN FileBlock(id, file_size)
        ELSE IF i \in start_pos..(start_pos + file_size - 1) THEN Free
        ELSE bl[i]]

\* compact_files: one turn of for file_id in (0..=max_id).rev()
CompactFile(bl, id) ==
    LET start_pos == FirstOfFile(bl, id)
    IN  IF start_pos = 0 THEN bl
        ELSE LET file_size == bl[start_pos].size
                 target_pos == FindFreeSpace(bl, start_pos, file_size)
             IN  IF target_pos = 0 THEN bl
                 ELSE MoveFile(bl, start_pos, target_pos, id, file_size)

Start9 ==
    /\ disk_map \in SeqsUpTo(Lengths, MaxMapLen)
    /\ blocks = DiskNew(disk_map)
    /\ pc9 = "new"
    /\ file_id = 0

\* solve_part1: disk.compact_blocks() is called
BeginCompactBlocks ==
    /\ pc9 = "new"
    /\ pc9' = "compacting_blocks"
    /\ UNCHANGED <<disk_map, blocks, file_id, others9>>

\* compact_blocks, one turn of the outer loop
CompactBlocksStep ==
    /\ pc9 = "compacting_blocks"
    /\ LET pos == RightmostFile(blocks)
           target_pos == FirstNone(blocks)
       IN  IF pos # 0 /\ target_pos # 0 /\ target_pos < pos
           THEN /\ blocks' = [blocks EXCEPT ![target_pos] = blocks[pos], ![pos] = Free]
                /\ UNCHANGED pc9
           ELSE /\ pc9' = "blocks_compacted"
                /\ UNCHANGED blocks
    /\ UNCHANGED <<disk_map, file_id, others9>>

\* solve_part2: disk.compact_files() is called and computes max_id
BeginCompactFiles ==
    /\ pc9 = "new"
    /\ file_id' = MaxId(blocks)
    /\ pc9' = "compacting_files"
    /\ UNCHANGED <<disk_map, blocks, others9>>

\* compact_files, one turn of the loop over the file ids
CompactFilesStep ==
    /\ pc9 = "compacting_files"
    /\ blocks' = CompactFile(blocks, file_id)
    /\ IF file_id = 0
       THEN pc9' = "files_compacted" /\ UNCHANGED file_id
       ELSE file_id' = file_id - 1 /\ UNCHANGED pc9
    /\ UNCHANGED <<disk_map, others9>>

\* Day 9 at rest: the empty disk map.
Rest9 ==
    /\ disk_map = <<>>
    /\ blocks = <<>>
    /\ pc9 = "new"
    /\ file_id = 0

Next9 ==
    \/ BeginCompactBlocks
    \/ CompactBlocksStep
    \/ BeginCompactFiles
    \/ CompactFilesStep

\* ---- what the compactions are to achieve ----

\* The disk as DiskState::new built it.
OriginalDisk == DiskNew(disk_map)

\* The file ids a disk map of the runs can give.
FileIds == 0..MaxMapLen

\* The positions that hold a block of file id.
Span(bl, id) == {p \in 1..Len(bl) : bl[p].id = id}

Leftmost(S) == CHOOSE p \in S : \A q \in S : p <= q
Rightmost(S) == CHOOSE p \in S : \A q \in S : q <= p

Contiguous(S) == S = {} \/ S = Leftmost(S)..Rightmost(S)

\* The same length and the same number of blocks of every file id.
SameBlocks(bl, orig) ==
    /\ Len(bl) = Len(orig)
    /\ \A id \in FileIds : Cardinality(Span(bl, id)) = Cardinality(Span(orig, id))
    /\ \A p \in 1..Len(bl) : bl[p] = Free \/ bl[p].id \in FileIds

\* All file blocks in one run at the start, every free block after them.
Compacted(bl) ==
    \A p, q \in 1..Len(bl) : p < q /\ bl[p] = Free => bl[q] = Free

\* bl2 is bl with its rightmost file block moved into its leftmost free
\* position, which lies left of it.
RightmostMovedToLeftmostFree(bl, bl2) ==
    \E from, to \in 1..Len(bl) :
        /\ bl[from] # Free /\ \A q \in (from + 1)..Len(bl) : bl[q] = Free
        /\ bl[to] = Free /\ \A q \in 1..(to - 1) : bl[q] # Free
        /\ to < from
        /\ Len(bl2) = Len(bl)
        /\ bl2[to].id = bl[from].id
        /\ bl2[from] = Free
        /\ \A q \in 1..Len(bl) : q \notin {from, to} => bl2[q] = bl[q]

\* C9, the part about states: compact_blocks keeps the length of the disk and
\* the number of blocks of each file id, and when it has returned all file
\* blocks are in one run at the start with every free block after them.
BlocksKeptAndCompacted ==
    /\ pc9 \in {"compacting_blocks", "blocks_compacted"} =>
           SameBlocks(blocks, OriginalDisk)
    /\ pc9 = "blocks_compacted" => Compacted(blocks)

\* C9, the part about steps: a turn of the loop that changes the disk moves
\* the rightmost file block into the leftmost free position.
BlockStepMovesRightmost ==
    pc9 = "compacting_blocks" /\ blocks' # blocks =>
        RightmostMovedToLeftmostFree(blocks, blocks')

\* C9: compact_blocks returns for every disk and leaves all file blocks in one
\* run at the start of the disk with every free block after them; each step
\* moves the rightmost file block into the leftmost free position; the disk
\* length and the number of blocks of each file id are the same before and
\* after.
C9_CompactBlocksTerminatesCompacted ==
    /\ []BlocksKeptAndCompacted
    /\ [][BlockStepMovesRightmost]_vars
    /\ (pc9 = "compacting_blocks") ~> (pc9 = "blocks_compacted")

\* C9 witness: compact_blocks has returned after moving blocks of two files
\* on a disk that keeps free blocks.
C9_Witness_BlocksMoved ==
    /\ pc9 = "blocks_compacted"
    /\ Cardinality({id \in FileIds :
           Span(blocks, id) # {} /\ Span(blocks, id) # Span(OriginalDisk, id)}) >= 2
    /\ \E p \in 1..Len(blocks) : blocks[p] = Free

\* The maximal runs of free blocks that lie left of position limit, as
\* <<first, last>>.
FreeRunsLeftOf(bl, limit) ==
    {r \in (1..(limit - 1)) \X (1..(limit - 1)) :
        /\ r[1] <= r[2]
        /\ \A p \in r[1]..r[2] : bl[p] = Free
        /\ r[1] = 1 \/ bl[r[1] - 1] # Free
        /\ bl[r[2] + 1] # Free}

\* The disk after file id was considered: moved as a whole to the start of
\* the leftmost run of free blocks that is at least as long as the file and
\* lies left of the file's start, or left alone when there is no such run or
\* no such file.
FileConsidered(bl, id) ==
    IF Span(bl, id) = {} THEN bl
    ELSE LET size == Cardinality(Span(bl, id))
             fitting == {r \in FreeRunsLeftOf(bl, Leftmost(Span(bl, id))) :
                            r[2] - r[1] + 1 >= size}
         IN  IF fitting = {} THEN bl
             ELSE LET to == Leftmost({r[1] : r \in fitting})
                  IN  [p \in 1..Len(bl) |->
                          IF p \in to..(to + size - 1) THEN bl[Leftmost(Span(bl, id))]
                          ELSE IF p \in Span(bl, id) THEN Free
                          ELSE bl[p]]

\* C10, the part about states: while compact_files runs and when it has
\* returned every file occupies one contiguous run of its original length
\* that starts no further right than it did, and the disk keeps its length.
FilesKeptWhole ==
    pc9 \in {"compacting_files", "files_compacted"} =>
        /\ Len(blocks) = Len(OriginalDisk)
        /\ \A p \in 1..Len(blocks) : blocks[p] = Free \/ blocks[p].id \in FileIds
        /\ \A id \in FileIds :
               /\ Cardinality(Span(blocks, id)) = Cardinality(Span(OriginalDisk, id))
               /\ Contiguous(Span(blocks, id))
               /\ Span(blocks, id) # {} =>
                      Leftmost(Span(blocks, id)) <= Leftmost(Span(OriginalDisk, id))

\* C10, the part about steps: compact_files starts with the largest file id
\* of the disk, each turn considers the current id and goes on to the next
\* lower one, and it returns after id 0.
FilesConsideredInOrder ==
    /\ pc9 = "new" /\ pc9' = "compacting_files" =>
           /\ \A id \in FileIds : Span(blocks, id) # {} => id <= file_id'
           /\ Span(blocks, file_id') # {} \/ (file_id' = 0 /\ \A id \in FileIds : Span(blocks, id) = {})
           /\ blocks' = blocks
    /\ pc9 = "compacting_files" =>
           /\ blocks' = FileConsidered(blocks, file_id)
           /\ IF file_id = 0 THEN pc9' = "files_compacted"
              ELSE pc9' = "compacting_files" /\ file_id' = file_id - 1
    /\ pc9 = "files_compacted" => blocks' = blocks

\* C10: compact_files considers each file id once, in decreasing order, and
\* moves the whole file to the leftmost run of free blocks that is at least
\* as long as the file and lies entirely left of the file's start, leaving it
\* in place when there is none; afterwards every file occupies one contiguous
\* run of its original length and no file starts further right than it did.
C10_CompactFilesMovesWholeFiles ==
    /\ []FilesKeptWhole
    /\ [][FilesConsideredInOrder]_vars

\* C10 witness: compact_files has returned after it moved one file past a
\* free run that was too short for it and left another file where it was
\* although free blocks lay left of it.
C10_Witness_MovedAndStayed ==
    /\ pc9 = "files_compacted"
    /\ \E id \in FileIds :
           /\ Span(blocks, id) # {}
           /\ Leftmost(Span(blocks, id)) < Leftmost(Span(OriginalDisk, id))
           /\ \E p \in 1..(Leftmost(Span(blocks, id)) - 1) : blocks[p] = Free
    /\ \E id \in FileIds :
           /\ Span(blocks, id) # {}
           /\ Span(blocks, id) = Span(OriginalDisk, id)
           /\ \E p \in 1..(Leftmost(Span(blocks, id)) - 1) : blocks[p] = Free
(***************************************************************************)
(* Day 10: hiking trails                                                   *)
(***************************************************************************)
\* Bound: number of cells of a base map that a run alters.
MaxAlteredCells == 1

\* The heights a digit of the input can give.
Heights == {0, 1, 2, 3, 4, 5, 6, 7, 8, 9}

\* The base maps of the runs, rows of equal length.  Rows and columns count
\* from 1 here and from 0 in the source.
BaseMaps ==
    { << <<0, 1, 2, 3, 4>>,
         <<1, 0, 9, 6, 5>>,
         <<9, 9, 8, 7, 6>> >>,
      << <<0, 1, 2, 3, 4>>,
         <<1, 2, 3, 4, 5>>,
         <<9, 9, 8, 7, 6>> >>,
      << <<9, 0>> >>,
      << <<0>> >> }

MapCells(map) == (1..Len(map)) \X (1..Len(map[1]))

\* The maps of the runs: a base map with at most MaxAlteredCells cells set to
\* any height.
AlteredMaps(base) ==
    { [r \in 1..Len(base) |->
          [c \in 1..Len(base[1]) |->
              IF <<r, c>> \in DOMAIN alter THEN alter[<<r, c>>] ELSE base[r][c]]] :
      alter \in UNION { [cells -> Heights] :
                        cells \in {s \in SUBSET MapCells(base) :
                                      Cardinality(s) <= MaxAlteredCells} } }

HeightMaps == UNION {AlteredMaps(base) : base \in BaseMaps}

\* directions
Directions == << <<0, 1>>, <<1, 0>>, <<0, -1>>, <<-1, 0>> >>

\* new_r >= 0 && new_r < rows && new_c >= 0 && new_c < cols
InBounds(map, r, c) == r >= 1 /\ r <= Len(map) /\ c >= 1 /\ c <= Len(map[1])

\* A search that takes every cell for unvisited.
NeverVisited(visited, cell) == TRUE

\* bfs_trailhead_score: !visited[new_r][new_c]
NotVisited(visited, cell) == cell \notin visited

\* bfs_trailhead_score: the for loop over the directions, from direction d
\* on, for the popped entry (r, c, height); gives the queue and visited
RECURSIVE BfsNeighbours(_, _, _, _, _, _, _)
BfsNeighbours(map, r, c, height, d, queue, visited) ==
    IF d > Len(Directions) THEN <<queue, visited>>
    ELSE LET new_r == r + Directions[d][1]
             new_c == c + Directions[d][2]
         IN  IF /\ InBounds(map, new_r, new_c)
                /\ NotVisited(visited, <<new_r, new_c>>)
                /\ map[new_r][new_c] = height + 1
             THEN BfsNeighbours(map, r, c, height, d + 1,
                                Append(queue, <<new_r, new_c, height + 1>>),
                                visited \cup {<<new_r, new_c>>})
             ELSE BfsNeighbours(map, r, c, height, d + 1, queue, visited)

\* bfs_trailhead_score: the while loop
RECURSIVE BfsLoop(_, _, _, _)
BfsLoop(map, queue, visited, score) ==
    IF queue = <<>> THEN score
    ELSE LET r == Head(queue)[1]
             c == Head(queue)[2]
             height == Head(queue)[3]
         IN  IF height = 9 THEN BfsLoop(map, Tail(queue), visited, score + 1)
             ELSE LET qv == BfsNeighbours(map, r, c, height, 1, Tail(queue), visited)
                  IN  BfsLoop(map, qv[1], qv[2], score)

BfsTrailheadScore(map, start_r, start_c) ==
    BfsLoop(map, << <<start_r, start_c, 0>> >>, {<<start_r, start_c>>}, 0)

\* The memo table: HashMap<(usize, usize), usize>
EmptyMemo == [cell \in {} |-> 0]

\* A memo table that records a single path for every cell.
MemoInsertOne(memo, cell, total_paths) == [x \in DOMAIN memo \cup {cell} |->
                                             IF x = cell THEN 1 ELSE memo[x]]

\* memo.insert((r, c), total_paths)
MemoInsert(memo, cell, total_paths) == [x \in DOMAIN memo \cup {cell} |->
                                          IF x = cell THEN total_paths ELSE memo[x]]

\* count_paths; gives <<the count, the memo table afterwards>>
RECURSIVE CountPaths(_, _, _, _)
RECURSIVE CountPathsNeighbours(_, _, _, _, _, _)
CountPaths(map, r, c, memo) ==
    IF map[r][c] = 9 THEN <<1, memo>>
    ELSE IF <<r, c>> \in DOMAIN memo THEN <<memo[<<r, c>>], memo>>
    ELSE LET tm == CountPathsNeighbours(map, r, c, 1, 0, memo)
         IN  <<tm[1], MemoInsert(tm[2], <<r, c>>, tm[1])>>

\* count_paths: the for loop over the directions, from direction d on
CountPathsNeighbours(map, r, c, d, total_paths, memo) ==
    IF d > Len(Directions) THEN <<total_paths, memo>>
    ELSE LET new_r == r + Directions[d][1]
             new_c == c + Directions[d][2]
         IN  IF InBounds(map, new_r, new_c) /\ map[new_r][new_c] = map[r][c] + 1
             THEN LET pm == CountPaths(map, new_r, new_c, memo)
                  IN  CountPathsNeighbours(map, r, c, d + 1, total_paths + pm[1], pm[2])
             ELSE CountPathsNeighbours(map, r, c, d + 1, total_paths, memo)

TrailheadRating(map, start_r, start_c) == CountPaths(map, start_r, start_c, EmptyMemo)[1]

\* The cell the loops for r in 0..rows, for c in 0..cols take after cell.
NextCell(map, cell) ==
    IF cell[2] < Len(map[1]) THEN <<cell[1], cell[2] + 1>> ELSE <<cell[1] + 1, 1>>

\* The first height-0 cell the loops reach from cell on, <<0, 0>> if none.
RECURSIVE NextTrailhead(_, _)
NextTrailhead(map, cell) ==
    IF cell[1] > Len(map) THEN <<0, 0>>
    ELSE IF map[cell[1]][cell[2]] = 0 THEN cell
    ELSE NextTrailhead(map, NextCell(map, cell))

Start10 ==
    /\ height_map \in HeightMaps
    /\ pc10 = "scores"
    /\ cursor = <<1, 1>>
    /\ total_score = 0
    /\ total_rating = 0

\* sum_of_trailhead_scores: the loops up to and with the next height-0 cell,
\* or to their end
ScoreNextTrailhead ==
    /\ pc10 = "scores"
    /\ LET head == NextTrailhead(height_map, cursor)
       IN  IF head = <<0, 0>>
           THEN /\ pc10' = "ratings"
                /\ cursor' = <<1, 1>>
                /\ UNCHANGED total_score
           ELSE /\ total_score' = total_score + BfsTrailheadScore(height_map, head[1], head[2])
                /\ cursor' = NextCell(height_map, head)
                /\ UNCHANGED pc10
    /\ UNCHANGED <<height_map, total_rating, others10>>

\* sum_of_trailhead_ratings: the loops up to and with the next height-0 cell,
\* or to their end
RateNextTrailhead ==
    /\ pc10 = "ratings"
    /\ LET head == NextTrailhead(height_map, cursor)
       IN  IF head = <<0, 0>>
           THEN /\ pc10' = "printed"
                /\ UNCHANGED <<cursor, total_rating>>
           ELSE /\ total_rating' = total_rating + TrailheadRating(height_map, head[1], head[2])
                /\ cursor' = NextCell(height_map, head)
                /\ UNCHANGED pc10
    /\ UNCHANGED <<height_map, total_score, others10>>

\* Day 10 at rest: the map of one cell of height 1.
Rest10 ==
    /\ height_map = << <<1>> >>
    /\ pc10 = "scores"
    /\ cursor = <<1, 1>>
    /\ total_score = 0
    /\ total_rating = 0

Next10 ==
    \/ ScoreNextTrailhead
    \/ RateNextTrailhead

\* ---- what the sums are to be ----

Adjacent(a, b) ==
    \/ a[1] = b[1] /\ (a[2] = b[2] + 1 \/ b[2] = a[2] + 1)
    \/ a[2] = b[2] /\ (a[1] = b[1] + 1 \/ b[1] = a[1] + 1)

Trailheads(map) == {cell \in MapCells(map) : map[cell[1]][cell[2]] = 0}

\* The cells of height k that a hiker reaches from start by k steps that each
\* raise the height by exactly 1.
RECURSIVE ReachedAt(_, _, _)
ReachedAt(map, start, k) ==
    IF k = 0 THEN {start}
    ELSE {cell \in MapCells(map) :
             /\ map[cell[1]][cell[2]] = k
             /\ \E prev \in ReachedAt(map, start, k - 1) : Adjacent(prev, cell)}

\* The sum of f over the cells of S.
RECURSIVE SumOf(_, _)
SumOf(f, S) ==
    IF S = {} THEN 0
    ELSE LET x == CHOOSE x \in S : TRUE IN f[x] + SumOf(f, S \ {x})

\* The number of hiking trails from start that end on cell <<r, c>>, which
\* has height k: the trails to its four neighbours of height k - 1, each
\* extended by one step.
RECURSIVE TrailsTo(_, _, _, _, _)
TrailsTo(map, start, r, c, k) ==
    IF ~(<<r, c>> \in MapCells(map)) THEN 0
    ELSE IF map[r][c] # k THEN 0
    ELSE IF k = 0 THEN (IF <<r, c>> = start THEN 1 ELSE 0)
    ELSE TrailsTo(map, start, r - 1, c, k - 1) + TrailsTo(map, start, r + 1, c, k - 1)
         + TrailsTo(map, start, r, c - 1, k - 1) + TrailsTo(map, start, r, c + 1, k - 1)

\* count_paths without the memo table: the paths from <<r, c>>, entered
\* from a cell of height below, to any height-9 cell
RECURSIVE PathsFrom(_, _, _, _)
PathsFrom(map, r, c, below) ==
    IF ~(<<r, c>> \in MapCells(map)) THEN 0
    ELSE IF map[r][c] # below + 1 THEN 0
    ELSE IF map[r][c] = 9 THEN 1
    ELSE PathsFrom(map, r, c + 1, map[r][c]) + PathsFrom(map, r + 1, c, map[r][c])
         + PathsFrom(map, r, c - 1, map[r][c]) + PathsFrom(map, r - 1, c, map[r][c])

PathsWithoutMemo(map, cell) == PathsFrom(map, cell[1], cell[2], map[cell[1]][cell[2]] - 1)

\* The trailheads the loops have dealt with when the cursor is at cell.
Before(cell, cur) == cell[1] < cur[1] \/ (cell[1] = cur[1] /\ cell[2] < cur[2])

\* C11: when sum_of_trailhead_scores has returned, its sum is the sum over
\* all height-0 cells of the number of distinct height-9 cells reachable from
\* the cell by orthogonal steps that each raise the height by exactly 1, a
\* height-9 cell counting once for a trailhead however many paths reach it;
\* while it runs, the sum is that of the height-0 cells passed so far.
C11_ScoresCountReachableNines ==
    /\ pc10 = "scores" =>
           total_score =
               SumOf([t \in Trailheads(height_map) |->
                         IF Before(t, cursor)
                         THEN Cardinality(ReachedAt(height_map, t, 9)) ELSE 0],
                     Trailheads(height_map))
    /\ pc10 # "scores" =>
           total_score =
               SumOf([t \in Trailheads(height_map) |->
                         Cardinality(ReachedAt(height_map, t, 9))],
                     Trailheads(height_map))

\* C11 witness: the scores are summed for a map with two trailheads, one of
\* which reaches a height-9 cell along more than one path.
C11_Witness_NineReachedTwice ==
    /\ pc10 = "ratings"
    /\ Cardinality(Trailheads(height_map)) >= 2
    /\ \E t \in Trailheads(height_map) :
           \E nine \in ReachedAt(height_map, t, 9) : TrailsTo(height_map, t, nine[1], nine[2], 9) >= 2

\* C12: when sum_of_trailhead_ratings has returned, its sum is the sum over
\* all height-0 cells of the number of distinct paths from the cell to any
\* height-9 cell along orthogonal steps that each raise the height by exactly
\* 1, and for every height-0 cell count_paths with its memo table gives what
\* the same recursion gives without one.
C12_RatingsCountPaths ==
    /\ pc10 = "printed" =>
           total_rating =
               SumOf([t \in Trailheads(height_map) |->
                         SumOf([nine \in MapCells(height_map) |->
                                   TrailsTo(height_map, t, nine[1], nine[2], 9)],
                               MapCells(height_map))],
                     Trailheads(height_map))
    /\ pc10 = "ratings" =>
           \A t \in Trailheads(height_map) :
               TrailheadRating(height_map, t[1], t[2]) = PathsWithoutMemo(height_map, t)

\* C12 witness: the ratings are summed for a map on which count_paths meets a
\* cell again that it has in its memo table with more than one path.
C12_Witness_MemoUsed ==
    /\ pc10 = "printed"
    /\ total_rating >= 4
    /\ \E t \in Trailheads(height_map) :
           \E cell \in MapCells(height_map) :
               /\ height_map[cell[1]][cell[2]] \in 1..8
               /\ PathsWithoutMemo(height_map, cell) >= 2
               /\ TrailsTo(height_map, t, cell[1], cell[2], height_map[cell[1]][cell[2]]) >= 2

(***************************************************************************)
(* Day 11: blinking stones                                                 *)
(***************************************************************************)
\* Bounds: the blink count of a call and the number of calls that share one
\* memo table.
MaxBlinks == 3
MaxObservations == 2

\* The stones of the runs, as strings of decimal digits, first digit first.
StoneStrings ==
    { <<0>>, <<1>>, <<7>>, <<1, 0>>, <<1, 7>>, <<9, 9>>, <<1, 2, 5>>, <<9, 9, 9>>,
      <<2, 0, 2, 4>>, <<1, 0, 0, 0>>, <<0, 0>>, <<0, 7>>, <<0, 1, 2>>, <<0, 0, 1, 2>> }

\* s.trim_start_matches('0')
RECURSIVE TrimStartZeros(_)
TrimStartZeros(s) ==
    IF s # <<>> /\ Head(s) = 0 THEN TrimStartZeros(Tail(s)) ELSE s

\* clean_inscription
CleanInscription(s) ==
    IF TrimStartZeros(s) = <<>> THEN <<0>> ELSE TrimStartZeros(s)

\* has_balanced_inscriptions
HasBalancedInscriptions(s) ==
    Len(CleanInscription(s)) > 0 /\ Len(CleanInscription(s)) % 2 = 0

\* s.chars().rev()
RECURSIVE Reversed(_)
Reversed(s) == IF s = <<>> THEN <<>> ELSE Append(Reversed(Tail(s)), Head(s))

\* apply_plutonian_constant: the for loop over the digits, last digit first;
\* gives <<result, cosmic_overflow>>
RECURSIVE PlutonianDigits(_, _, _)
PlutonianDigits(digits, result, cosmic_overflow) ==
    IF digits = <<>> THEN <<result, cosmic_overflow>>
    ELSE LET cosmic_value == Head(digits) * 2024 + cosmic_overflow
         IN  PlutonianDigits(Tail(digits), Append(result, cosmic_value % 10),
                             cosmic_value \div 10)

\* apply_plutonian_constant: the while loop over the remaining overflow
RECURSIVE PlutonianOverflow(_, _)
PlutonianOverflow(result, cosmic_overflow) ==
    IF cosmic_overflow > 0
    THEN PlutonianOverflow(Append(result, cosmic_overflow % 10), cosmic_overflow \div 10)
    ELSE result

\* apply_plutonian_constant
ApplyPlutonianConstant(s) ==
    LET ro == PlutonianDigits(Reversed(s), <<>>, 0)
    IN  Reversed(PlutonianOverflow(ro[1], ro[2]))

\* s.split_at(s.len() / 2)
SplitAt(s, mid) == <<SubSeq(s, 1, mid), SubSeq(s, mid + 1, Len(s))>>

\* (n, s) if has_balanced_inscriptions(s): the two halves
Halves(s) == SplitAt(s, Len(s) \div 2)

\* HashMap<(String, usize), usize>
NoStoneMemory == [key \in {} |-> 0]

\* The key of the memo table: (stone.to_string(), blinks)
MemoryKey(stone, blinks) == <<stone, blinks>>

\* observe_stone_transformations; gives <<result, stone_memory afterwards>>
RECURSIVE ObserveStoneTransformations(_, _, _)
ObserveStoneTransformations(stone, blinks, memory) ==
    IF MemoryKey(stone, blinks) \in DOMAIN memory
    THEN <<memory[MemoryKey(stone, blinks)], memory>>
    ELSE LET rm ==
                 IF blinks = 0 THEN <<1, memory>>
                 ELSE IF stone = <<0>>
                 THEN ObserveStoneTransformations(<<1>>, blinks - 1, memory)
                 ELSE IF HasBalancedInscriptions(stone)
                 THEN LET left == ObserveStoneTransformations(
                                      CleanInscription(Halves(stone)[1]), blinks - 1, memory)
                          right == ObserveStoneTransformations(
                                      CleanInscription(Halves(stone)[2]), blinks - 1, left[2])
                      IN  <<left[1] + right[1], right[2]>>
                 ELSE ObserveStoneTransformations(
                          ApplyPlutonianConstant(stone), blinks - 1, memory)
         IN  <<rm[1],
               [key \in DOMAIN rm[2] \cup {MemoryKey(stone, blinks)} |->
                   IF key = MemoryKey(stone, blinks) THEN rm[1] ELSE rm[2][key]]>>

Start11 ==
    /\ stone_memory = NoStoneMemory
    /\ observations = 0
    /\ observed_stone = <<0>>
    /\ observed_blinks = 0
    /\ observed_result = 1

\* One call observe_stone_transformations(stone, blinks, &mut stone_memory)
Observe(stone, blinks) ==
    /\ observations < MaxObservations
    /\ observations' = observations + 1
    /\ observed_stone' = stone
    /\ observed_blinks' = blinks
    /\ observed_result' = ObserveStoneTransformations(stone, blinks, stone_memory)[1]
    /\ stone_memory' = ObserveStoneTransformations(stone, blinks, stone_memory)[2]
    /\ UNCHANGED others11

\* main: stone_memory.clear()
ClearStoneMemory ==
    /\ stone_memory # NoStoneMemory
    /\ stone_memory' = NoStoneMemory
    /\ UNCHANGED <<observations, observed_stone, observed_blinks, observed_result, others11>>

\* Day 11 at rest: nothing observed.
Rest11 == Start11

Next11 ==
    \/ \E stone \in StoneStrings : \E blinks \in 0..MaxBlinks : Observe(stone, blinks)
    \/ ClearStoneMemory

\* ---- the rules, on decimal numerals of any length ----

\* The numeral of the number a string of digits denotes: no leading zeros,
\* <<0>> for zero.
RECURSIVE Numeral(_)
Numeral(s) ==
    IF Len(s) <= 1 THEN (IF s = <<>> THEN <<0>> ELSE s)
    ELSE IF s[1] = 0 THEN Numeral(SubSeq(s, 2, Len(s)))
    ELSE s

\* The sum of two numerals: column addition from the last digit, with carry.
RECURSIVE AddColumns(_, _, _)
AddColumns(a, b, carry) ==
    IF a = <<>> /\ b = <<>> THEN (IF carry = 0 THEN <<>> ELSE <<carry>>)
    ELSE LET da == IF a = <<>> THEN 0 ELSE a[Len(a)]
             db == IF b = <<>> THEN 0 ELSE b[Len(b)]
             ra == IF a = <<>> THEN <<>> ELSE SubSeq(a, 1, Len(a) - 1)
             rb == IF b = <<>> THEN <<>> ELSE SubSeq(b, 1, Len(b) - 1)
         IN  Append(AddColumns(ra, rb, (da + db + carry) \div 10), (da + db + carry) % 10)

Plus(a, b) == Numeral(AddColumns(a, b, 0))

\* 2024 x = 2000 x + 20 x + 4 x, by additions and appended zeros.
Times2024(x) ==
    LET twice == Plus(x, x)
        four == Plus(twice, twice)
    IN  Plus(Plus(Numeral(twice \o <<0, 0, 0>>), Numeral(twice \o <<0>>)), four)

\* The number of stones the stone with numeral x becomes after n blinks.
RECURSIVE StonesAfter(_, _)
StonesAfter(x, n) ==
    IF n = 0 THEN 1
    ELSE IF x = <<0>> THEN StonesAfter(<<1>>, n - 1)
    ELSE IF Len(x) % 2 = 0
    THEN StonesAfter(Numeral(SubSeq(x, 1, Len(x) \div 2)), n - 1)
         + StonesAfter(Numeral(SubSeq(x, Len(x) \div 2 + 1, Len(x))), n - 1)
    ELSE StonesAfter(Times2024(x), n - 1)

\* C13: every call of observe_stone_transformations, whether the memo table
\* was empty or held entries of earlier calls, returns the number of stones
\* that the stone, read as the number it denotes, becomes after the given
\* number of blinks (0 becomes 1; an even count of digits splits into the
\* digit halves with leading zeros dropped; else times 2024).
C13_ObservedCountFollowsTheRules ==
    observations > 0 =>
        observed_result = StonesAfter(Numeral(observed_stone), observed_blinks)

(***************************************************************************)
(* Day 8: antenna resonance                                                *)
(***************************************************************************)
\* Bound: number of antennas on the map.
MaxAntennas == 4

\* The sizes of the maps of the runs, as <<field_width, field_height>>, and
\* the frequencies of their antennas.
FieldSizes == {<<4, 3>>}
Frequencies == {"a", "0"}

\* The cells of a field in the order From<&[String]> scans them: line by
\* line, each line from its first character.  A position is <<x, y>>, from 0.
ScanOrder(width, height) ==
    [k \in 1..(width * height) |-> <<(k - 1) % width, (k - 1) \div width>>]

\* From<&[String]>: the positions of the cells of scan from the k-th on that
\* hold frequency signal, in scan order
RECURSIVE PositionsOf(_, _, _, _)
PositionsOf(placed, signal, scan, k) ==
    IF k > Len(scan) THEN <<>>
    ELSE IF scan[k] \in DOMAIN placed /\ placed[scan[k]] = signal
    THEN <<scan[k]>> \o PositionsOf(placed, signal, scan, k + 1)
    ELSE PositionsOf(placed, signal, scan, k + 1)

\* From<&[String]> for SignalMap, for a map of the given size with the
\* antennas placed (a function from positions to frequencies)
SignalMapFrom(width, height, placed) ==
    [frequency_network |->
         [signal \in {placed[p] : p \in DOMAIN placed} |->
             PositionsOf(placed, signal, ScanOrder(width, height), 1)],
     field_width |-> width,
     field_height |-> height]

SignalMaps ==
    UNION { { SignalMapFrom(wh[1], wh[2], placed) :
              placed \in UNION { [cells -> Frequencies] :
                                 cells \in {s \in SUBSET Range(ScanOrder(wh[1], wh[2])) :
                                               Cardinality(s) <= MaxAntennas} } } :
            wh \in FieldSizes }

\* x >= 0 && x < field_width as i32 && y >= 0 && y < field_height as i32
InField(x, y, field_width, field_height) ==
    x >= 0 /\ x < field_width /\ y >= 0 /\ y < field_height

\* i32 a % b and a / b of the source: the quotient is truncated towards zero
\* and the remainder has the sign of a.
Abs(a) == IF a < 0 THEN -a ELSE a
Rem(a, b) == IF a < 0 THEN -(Abs(a) % Abs(b)) ELSE a % Abs(b)
Quot(a, b) == IF (a < 0) = (b < 0) THEN Abs(a) \div Abs(b) ELSE -(Abs(a) \div Abs(b))

\* A phase that is always 1.
UnitPhase(a, b) == 1

\* gcd
RECURSIVE Gcd(_, _)
Gcd(a, b) == IF b = 0 THEN Abs(a) ELSE Gcd(b, Rem(a, b))

\* DistanceResonance: the forward point only.
ForwardPoint(a, b, field_width, field_height) ==
    IF InField(2 * a[1] - b[1], 2 * a[2] - b[2], field_width, field_height)
    THEN {<<2 * a[1] - b[1], 2 * a[2] - b[2]>>} ELSE {}

\* DistanceResonance::detect_antinodes: the points inserted for antennas[i] = a
\* and antennas[j] = b
DistancePoints(a, b, field_width, field_height) ==
    (IF InField(2 * a[1] - b[1], 2 * a[2] - b[2], field_width, field_height)
     THEN {<<2 * a[1] - b[1], 2 * a[2] - b[2]>>} ELSE {})
    \cup
    (IF InField(2 * b[1] - a[1], 2 * b[2] - a[2], field_width, field_height)
     THEN {<<2 * b[1] - a[1], 2 * b[2] - a[2]>>} ELSE {})

\* DistanceResonance::detect_antinodes
DistanceDetect(antennas, field_width, field_height) ==
    UNION { DistancePoints(antennas[ij[1]], antennas[ij[2]], field_width, field_height) :
            ij \in {p \in (1..Len(antennas)) \X (1..Len(antennas)) : p[1] < p[2]} }

\* HarmonicResonance::detect_antinodes: one while loop, from <<x, y>> on in
\* steps of <<step_x, step_y>>
RECURSIVE TraceWave(_, _, _, _, _, _)
TraceWave(x, y, step_x, step_y, field_width, field_height) ==
    IF InField(x, y, field_width, field_height)
    THEN {<<x, y>>} \cup TraceWave(x + step_x, y + step_y, step_x, step_y,
                                  field_width, field_height)
    ELSE {}

\* HarmonicResonance::detect_antinodes: the points inserted for antennas[i] = a
\* and antennas[j] = b
HarmonicPoints(a, b, field_width, field_height) ==
    LET delta_x == b[1] - a[1]
        delta_y == b[2] - a[2]
        phase == Gcd(delta_x, delta_y)
        step_x == Quot(delta_x, phase)
        step_y == Quot(delta_y, phase)
    IN  TraceWave(a[1], a[2], step_x, step_y, field_width, field_height)
        \cup TraceWave(a[1], a[2], -step_x, -step_y, field_width, field_height)

\* HarmonicResonance::detect_antinodes
HarmonicDetect(antennas, field_width, field_height) ==
    UNION { HarmonicPoints(antennas[ij[1]], antennas[ij[2]], field_width, field_height) :
            ij \in {p \in (1..Len(antennas)) \X (1..Len(antennas)) : p[1] < p[2]} }

Start8 ==
    /\ signal_map \in SignalMaps
    /\ pc8 = "phase one"
    /\ unvisited = DOMAIN signal_map.frequency_network
    /\ resonance = {}
    /\ phase_one_result = -1
    /\ phase_two_result = -1

\* analyze_resonance(&signal_map, DistanceResonance): the next value of
\* frequency_network.values(), in whatever order the map yields them
DetectDistance(signal) ==
    /\ pc8 = "phase one"
    /\ signal \in unvisited
    /\ unvisited' = unvisited \ {signal}
    /\ resonance' = resonance \cup
           DistanceDetect(signal_map.frequency_network[signal],
                          signal_map.field_width, signal_map.field_height)
    /\ UNCHANGED <<signal_map, pc8, phase_one_result, phase_two_result, others8>>

\* analyze_resonance(&signal_map, DistanceResonance): .collect().len()
CountPhaseOne ==
    /\ pc8 = "phase one"
    /\ unvisited = {}
    /\ phase_one_result' = Cardinality(resonance)
    /\ pc8' = "phase two"
    /\ unvisited' = DOMAIN signal_map.frequency_network
    /\ resonance' = {}
    /\ UNCHANGED <<signal_map, phase_two_result, others8>>

\* analyze_resonance(&signal_map, HarmonicResonance): the next value of
\* frequency_network.values()
DetectHarmonic(signal) ==
    /\ pc8 = "phase two"
    /\ signal \in unvisited
    /\ unvisited' = unvisited \ {signal}
    /\ resonance' = resonance \cup
           HarmonicDetect(signal_map.frequency_network[signal],
                          signal_map.field_width, signal_map.field_height)
    /\ UNCHANGED <<signal_map, pc8, phase_one_result, phase_two_result, others8>>

\* analyze_resonance(&signal_map, HarmonicResonance): .collect().len()
CountPhaseTwo ==
    /\ pc8 = "phase two"
    /\ unvisited = {}
    /\ phase_two_result' = Cardinality(resonance)
    /\ pc8' = "complete"
    /\ UNCHANGED <<signal_map, unvisited, resonance, phase_one_result, others8>>

\* Day 8 at rest: the map of no line.
Rest8 ==
    /\ signal_map = SignalMapFrom(0, 0, [p \in {} |-> "a"])
    /\ pc8 = "phase one"
    /\ unvisited = {}
    /\ resonance = {}
    /\ phase_one_result = -1
    /\ phase_two_result = -1

Next8 ==
    \/ \E signal \in Frequencies : DetectDistance(signal)
    \/ CountPhaseOne
    \/ \E signal \in Frequencies : DetectHarmonic(signal)
    \/ CountPhaseTwo

\* ---- the antinodes of a map ----

FieldCells(sm) == (0..(sm.field_width - 1)) \X (0..(sm.field_height - 1))

\* The antennas of a frequency, as a set of positions.
AntennasOf(sm, signal) == Range(sm.frequency_network[signal])

\* The cells inside the grid that equal 2a - b for an ordered pair of
\* different antennas a, b of one frequency.
DistanceAntinodes(sm) ==
    {p \in FieldCells(sm) :
        \E signal \in DOMAIN sm.frequency_network :
            \E a, b \in AntennasOf(sm, signal) :
                a # b /\ p[1] = 2 * a[1] - b[1] /\ p[2] = 2 * a[2] - b[2]}

\* p lies on the straight line through a and b.
OnLine(p, a, b) ==
    (b[1] - a[1]) * (p[2] - a[2]) = (b[2] - a[2]) * (p[1] - a[1])

\* The cells inside the grid on the line through some pair of different
\* antennas of one frequency.
HarmonicAntinodes(sm) ==
    {p \in FieldCells(sm) :
        \E signal \in DOMAIN sm.frequency_network :
            \E a, b \in AntennasOf(sm, signal) : a # b /\ OnLine(p, a, b)}

\* C14: the count analyze_resonance returns with DistanceResonance is the
\* number of distinct cells inside the grid that equal 2a - b for an ordered
\* pair of different antennas a, b of the same frequency; while it runs it
\* has collected only such cells.
C14_DistanceCountsAntinodes ==
    /\ pc8 = "phase one" => resonance \subseteq DistanceAntinodes(signal_map)
    /\ pc8 # "phase one" =>
           phase_one_result = Cardinality(DistanceAntinodes(signal_map))

\* C14 witness: phase one has returned on a map with two frequencies where
\* one cell is the antinode of more than one pair.
C14_Witness_SharedAntinode ==
    /\ pc8 = "phase two"
    /\ phase_one_result >= 2
    /\ Cardinality(DOMAIN signal_map.frequency_network) = 2
    /\ \E p \in DistanceAntinodes(signal_map) :
           Cardinality({ab \in Range(ScanOrder(signal_map.field_width,
                                               signal_map.field_height)) \X
                               Range(ScanOrder(signal_map.field_width,
                                               signal_map.field_height)) :
               /\ \E signal \in DOMAIN signal_map.frequency_network :
                      ab[1] \in AntennasOf(signal_map, signal)
                      /\ ab[2] \in AntennasOf(signal_map, signal)
               /\ ab[1] # ab[2]
               /\ p[1] = 2 * ab[1][1] - ab[2][1]
               /\ p[2] = 2 * ab[1][2] - ab[2][2]}) >= 2

\* C15: the count analyze_resonance returns with HarmonicResonance is the
\* number of distinct grid cells on the straight line through some pair of
\* different antennas of the same frequency, the antennas included and every
\* cell of the line with integer coordinates counted; while it runs it has
\* collected only such cells.
C15_HarmonicCountsLines ==
    /\ pc8 = "phase two" => resonance \subseteq HarmonicAntinodes(signal_map)
    /\ pc8 = "complete" =>
           phase_two_result = Cardinality(HarmonicAntinodes(signal_map))

\* C15 witness: phase two has returned on a map with two antennas of one
\* frequency that are more than one lattice step apart, so that a cell
\* between them is counted.
C15_Witness_CellBetweenAntennas ==
    /\ pc8 = "complete"
    /\ \E signal \in DOMAIN signal_map.frequency_network :
           \E a, b \in AntennasOf(signal_map, signal) :
               /\ a # b
               /\ \E p \in HarmonicAntinodes(signal_map) :
                      /\ OnLine(p, a, b)
                      /\ p # a /\ p # b
                      /\ (p[1] - a[1]) * (p[1] - b[1]) <= 0
                      /\ (p[2] - a[2]) * (p[2] - b[2]) <= 0
               /\ a[2] # b[2] /\ a[1] # b[1]

\* ---- Day 8 from the lines of standard input ----

\* The transmissions of the runs: four lines of two or three characters,
\* each '.' or the antenna 'a', with at most MaxAntennas antennas.  From
\* takes lines of any lengths.
LineLengths == {2, 3}
ScanLines == UNION {[1..n -> {".", "a"}] : n \in LineLengths}
Transmissions ==
    {data \in [1..4 -> ScanLines] :
        Cardinality({p \in (1..4) \X (1..3) :
                        p[2] <= Len(data[p[1]]) /\ data[p[1]][p[2]] = "a"})
            <= MaxAntennas}

\* char::is_alphanumeric on the characters of the runs
IsAlphanumeric(signal) == signal # "."

\* From<&[String]> for SignalMap: field_width is the length of the first
\* line, and every alphanumeric character of every line is an antenna at
\* its column and line
SignalMapOfLines(data) ==
    LET longest == CHOOSE n \in {Len(data[y]) : y \in DOMAIN data} :
                       \A y \in DOMAIN data : Len(data[y]) <= n
        at == {p \in (0..(longest - 1)) \X (0..(Len(data) - 1)) :
                  /\ p[1] < Len(data[p[2] + 1])
                  /\ IsAlphanumeric(data[p[2] + 1][p[1] + 1])}
        placed == [p \in at |-> data[p[2] + 1][p[1] + 1]]
    IN  [frequency_network |->
             [signal \in {placed[p] : p \in at} |->
                 PositionsOf(placed, signal, ScanOrder(longest, Len(data)), 1)],
         field_width |-> IF Len(data) > 0 THEN Len(data[1]) ELSE 0,
         field_height |-> Len(data)]

\* main: the lines of standard input turned into the signal map
Start8Lines ==
    /\ signal_map \in {SignalMapOfLines(data) : data \in Transmissions}
    /\ pc8 = "phase one"
    /\ unvisited = DOMAIN signal_map.frequency_network
    /\ resonance = {}
    /\ phase_one_result = -1
    /\ phase_two_result = -1

\* C29: for every list of distinct antenna positions and every grid size the
\* set DistanceResonance::detect_antinodes returns is a subset of the set
\* HarmonicResonance::detect_antinodes returns, so the phase-one count is
\* never above the phase-two count.
C29_DistanceWithinHarmonic ==
    /\ \A signal \in DOMAIN signal_map.frequency_network :
           DistanceDetect(signal_map.frequency_network[signal],
                          signal_map.field_width, signal_map.field_height)
           \subseteq
           HarmonicDetect(signal_map.frequency_network[signal],
                          signal_map.field_width, signal_map.field_height)
    /\ pc8 = "complete" => phase_one_result <= phase_two_result

(***************************************************************************)
(* Day 4: word search                                                      *)
(***************************************************************************)
\* Bound: number of characters of a base text that a run alters.
MaxAlteredLetters == 1

\* The characters a run writes over the base texts.
Letters == {"X", "M", "A", "S"}

\* The base texts of the runs, as lines of equal length: the two small
\* examples of the tests, a text of two lines, which has no inner row, and a
\* text of 36 columns, wide enough for one batch of 32 columns and a
\* remainder.
BaseTexts ==
    { << <<".", ".", "X", ".", ".", ".">>,
         <<".", "S", "A", "M", "X", ".">>,
         <<".", "A", ".", ".", "A", ".">>,
         <<"X", "M", "A", "S", ".", "S">>,
         <<".", "X", ".", ".", ".", ".">> >>,
      << <<"M", ".", "S">>,
         <<".", "A", ".">>,
         <<"M", ".", "S">> >>,
      << <<"X", "M", "A", "S">>,
         <<"S", "A", "M", "X">> >>,
      << <<"M", ".", "S", ".", ".", ".", ".", ".", "M", ".", "S", ".", ".", ".", ".", ".", "S", ".", "S", ".", ".", ".", ".", ".", "M", ".", "M", ".", ".", ".", ".", "M", ".", "M", ".", "S">>,
         <<"A", "A", ".", ".", ".", ".", ".", ".", ".", "A", ".", ".", ".", ".", ".", ".", ".", "A", ".", ".", ".", ".", ".", ".", ".", "A", ".", ".", ".", ".", ".", ".", "A", "A", "A", "A">>,
         <<"M", ".", "S", ".", ".", ".", ".", ".", "S", ".", "M", ".", ".", ".", ".", ".", "M", ".", "M", ".", ".", ".", ".", ".", "S", ".", "S", ".", ".", ".", ".", "M", ".", "M", ".", "S">> >> }

\* The sets of at most n elements of S.
RECURSIVE UpTo(_, _)
UpTo(S, n) ==
    IF n = 0 THEN {{}}
    ELSE {{}} \cup {s \cup {x} : s \in UpTo(S, n - 1), x \in S}

\* The cells of a base text that a run may alter: those in its first three
\* and last five columns, which in a text of 36 columns are the first columns
\* of the batch, its last column and the columns of the remainder.
Alterable(base) ==
    {cell \in (1..Len(base)) \X (1..Len(base[1])) :
        cell[2] <= 3 \/ cell[2] >= Len(base[1]) - 4}

\* The texts of the runs: a base text with at most MaxAlteredLetters
\* characters overwritten.
AlteredTexts(base) ==
    { [r \in 1..Len(base) |->
          [c \in 1..Len(base[1]) |->
              IF <<r, c>> \in DOMAIN alter THEN alter[<<r, c>>] ELSE base[r][c]]] :
      alter \in UNION { [cells -> Letters] :
                        cells \in UpTo(Alterable(base), MaxAlteredLetters) } }

Texts == UNION {AlteredTexts(base) : base \in BaseTexts}

\* Direction::ALL, as <<dy, dx>>
ALL == << <<0, 1>>, <<1, 0>>, <<0, -1>>, <<-1, 0>>,
          <<1, 1>>, <<1, -1>>, <<-1, 1>>, <<-1, -1>> >>

\* Grid::from_str, for lines of equal length: cells is indexed from 0 in the
\* source and from 1 here; rows and columns count from 0.
GridFromStr(lines) ==
    LET width == Len(lines[1])
        cells == [k \in 1..(Len(lines) * width) |->
                     lines[((k - 1) \div width) + 1][((k - 1) % width) + 1]]
    IN  [cells |-> cells,
         height |-> Len(cells) \div width,
         width |-> width,
         x_positions |-> {<<(k - 1) \div width, (k - 1) % width>> :
                             k \in {i \in 1..Len(cells) : cells[i] = "X"}},
         row_offsets |-> [r \in 0..(Len(cells) \div width - 1) |-> r * width]]

\* What a read outside the cell array gives: nothing the searches look for.
Unchecked == "?"

\* *self.cells.get_unchecked(idx)
GetUnchecked(g, idx) ==
    IF idx >= 0 /\ idx < Len(g.cells) THEN g.cells[idx + 1] ELSE Unchecked

\* A search that takes every endpoint to be inside the grid.
EndAlwaysInside(g, row, col, dir) == FALSE

\* find_word_xmas: the endpoint test that skips a direction
EndOutside(g, row, col, dir) ==
    LET end_row == row + dir[1] * 3
        end_col == col + dir[2] * 3
    IN  end_row < 0 \/ end_row >= g.height \/ end_col < 0 \/ end_col >= g.width

\* find_word_xmas: base_offset
BaseOffset(g, dir) == dir[1] * g.width + dir[2]

\* find_word_xmas: the indexes read for the X at (row, col) in direction dir;
\* && reads its right side only when its left side holds
WordReads(g, row, col, dir) ==
    LET pos == row * g.width + col
        pos1 == pos + BaseOffset(g, dir)
        pos2 == pos1 + BaseOffset(g, dir)
        pos3 == pos2 + BaseOffset(g, dir)
    IN  IF EndOutside(g, row, col, dir) THEN {}
        ELSE IF GetUnchecked(g, pos1) # "M" THEN {pos1}
        ELSE IF GetUnchecked(g, pos2) # "A" THEN {pos1, pos2}
        ELSE {pos1, pos2, pos3}

\* find_word_xmas: whether the X at (row, col) and direction dir add 1
WordFound(g, row, col, dir) ==
    LET pos == row * g.width + col
        pos1 == pos + BaseOffset(g, dir)
        pos2 == pos1 + BaseOffset(g, dir)
        pos3 == pos2 + BaseOffset(g, dir)
    IN  /\ ~EndOutside(g, row, col, dir)
        /\ GetUnchecked(g, pos1) = "M"
        /\ GetUnchecked(g, pos2) = "A"
        /\ GetUnchecked(g, pos3) = "S"

\* find_word_xmas: count, one for every X position and direction that is found
FindWordXmas(g) ==
    Cardinality({xd \in g.x_positions \X (1..Len(ALL)) :
                    WordFound(g, xd[1][1], xd[1][2], ALL[xd[2]])})

\* find_word_xmas: all the indexes it reads
FindWordXmasReads(g) ==
    UNION {WordReads(g, xd[1][1], xd[1][2], ALL[xd[2]]) :
              xd \in g.x_positions \X (1..Len(ALL))}

\* find_crossed_mas_simd: the cross test at column c of a row, from the four
\* diagonal neighbours
CrossAt(g, above_offset, below_offset, c) ==
    LET ul == GetUnchecked(g, above_offset + c - 1)
        ur == GetUnchecked(g, above_offset + c + 1)
        ll == GetUnchecked(g, below_offset + c - 1)
        lr == GetUnchecked(g, below_offset + c + 1)
    IN  /\ (<<ul, lr>> = <<"M", "S">> \/ <<ul, lr>> = <<"S", "M">>)
        /\ (<<ur, ll>> = <<"M", "S">> \/ <<ur, ll>> = <<"S", "M">>)

CrossReads(above_offset, below_offset, c) ==
    {above_offset + c - 1, above_offset + c + 1, below_offset + c - 1, below_offset + c + 1}

\* find_crossed_mas_simd: the columns at which while col + 32 < self.width - 1
\* loads a batch
BatchStarts(width) ==
    {col \in 1..width : (col - 1) % 32 = 0 /\ col + 32 < width - 1}

\* A remainder loop that starts over at column 1.
RemainderFromFirst(width) == 1

\* find_crossed_mas_simd: col when the remainder loop starts
RemainderStart(width) == 1 + 32 * Cardinality(BatchStarts(width))

\* find_crossed_mas_simd: the tests made in one row, as <<first column of the
\* batch or 0 for the remainder loop, column>>: in a batch the columns whose
\* mask bit is set, in the remainder loop the columns that hold 'A'
RowTests(g, row) ==
    LET row_offset == g.row_offsets[row]
    IN  {bc \in BatchStarts(g.width) \X (1..g.width) :
            /\ bc[2] >= bc[1] /\ bc[2] < bc[1] + 32
            /\ GetUnchecked(g, row_offset + bc[2]) = "A"}
        \cup
        {bc \in {0} \X (RemainderStart(g.width)..(g.width - 2)) :
            GetUnchecked(g, row_offset + bc[2]) = "A"}

\* find_crossed_mas_simd: the indexes read in one row
RowReads(g, row) ==
    LET row_offset == g.row_offsets[row]
    IN  UNION {(row_offset + col)..(row_offset + col + 31) : col \in BatchStarts(g.width)}
        \cup {row_offset + col : col \in RemainderStart(g.width)..(g.width - 2)}
        \cup UNION {CrossReads(g.row_offsets[row - 1], g.row_offsets[row + 1], bc[2]) :
                       bc \in RowTests(g, row)}

\* find_crossed_mas_simd: count
FindCrossedMasSimd(g) ==
    Cardinality({rt \in UNION {{row} \X RowTests(g, row) : row \in 1..(g.height - 2)} :
                    CrossAt(g, g.row_offsets[rt[1] - 1], g.row_offsets[rt[1] + 1], rt[2][2])})

\* find_crossed_mas_simd: all the indexes it reads
FindCrossedMasReads(g) == UNION {RowReads(g, row) : row \in 1..(g.height - 2)}

Start4 ==
    /\ input \in Texts
    /\ grid = GridFromStr(input)
    /\ pc4 = "parsed"
    /\ word_count = -1
    /\ cross_count = -1
    /\ indexes_read = {}

\* main: grid.find_word_xmas()
CountWords ==
    /\ pc4 = "parsed"
    /\ word_count' = FindWordXmas(grid)
    /\ indexes_read' = FindWordXmasReads(grid)
    /\ pc4' = "words counted"
    /\ UNCHANGED <<input, grid, cross_count, others4>>

\* main: grid.find_crossed_mas()
CountCrosses ==
    /\ pc4 = "words counted"
    /\ cross_count' = FindCrossedMasSimd(grid)
    /\ indexes_read' = FindCrossedMasReads(grid)
    /\ pc4' = "crosses counted"
    /\ UNCHANGED <<input, grid, word_count, others4>>

\* Day 4 at rest: a text of one character.
Rest4 ==
    /\ input = << <<".">> >>
    /\ grid = GridFromStr(input)
    /\ pc4 = "parsed"
    /\ word_count = -1
    /\ cross_count = -1
    /\ indexes_read = {}

Next4 ==
    \/ CountWords
    \/ CountCrosses

\* ---- the patterns, by rows and columns of the text (from 1) ----

TextCells(t) == (1..Len(t)) \X (1..Len(t[1]))

\* The eight directions.
Compass == {d \in {-1, 0, 1} \X {-1, 0, 1} : d # <<0, 0>>}

\* The four cells from start in direction d lie inside the text and read
\* X, M, A, S.
ReadsXmas(t, start, d) ==
    \A k \in 0..3 :
        /\ <<start[1] + k * d[1], start[2] + k * d[2]>> \in TextCells(t)
        /\ t[start[1] + k * d[1]][start[2] + k * d[2]] = <<"X", "M", "A", "S">>[k + 1]

MasOrSam(a, b) == <<a, b>> \in {<<"M", "S">>, <<"S", "M">>}

\* The cell is not on the border, holds 'A', and both its diagonals read
\* M-A-S or S-A-M.
IsCross(t, cell) ==
    /\ cell[1] \in 2..(Len(t) - 1)
    /\ cell[2] \in 2..(Len(t[1]) - 1)
    /\ t[cell[1]][cell[2]] = "A"
    /\ MasOrSam(t[cell[1] - 1][cell[2] - 1], t[cell[1] + 1][cell[2] + 1])
    /\ MasOrSam(t[cell[1] - 1][cell[2] + 1], t[cell[1] + 1][cell[2] - 1])

\* C16: find_word_xmas returns the number of (start cell, direction) pairs,
\* over the 8 directions, whose four cells from the start cell all lie inside
\* the grid and read X, M, A, S, and it reads no index outside the cell array.
C16_WordCountIsPairsReadingXmas ==
    pc4 = "words counted" =>
        /\ word_count = Cardinality({sd \in TextCells(input) \X Compass :
                                        ReadsXmas(input, sd[1], sd[2])})
        /\ \A idx \in indexes_read : idx >= 0 /\ idx < Len(grid.cells)

\* C16 witness: words were counted in a text that holds XMAS in more than one
\* direction and an X whose word would run over the border.
C16_Witness_WordsInSeveralDirections ==
    /\ pc4 = "words counted"
    /\ word_count >= 3
    /\ Cardinality({sd[2] : sd \in {x \in TextCells(input) \X Compass :
                                       ReadsXmas(input, x[1], x[2])}}) >= 3
    /\ \E xd \in grid.x_positions \X (1..Len(ALL)) :
           EndOutside(grid, xd[1][1], xd[1][2], ALL[xd[2]])

\* C17: find_crossed_mas returns the number of cells that are not on the
\* border, hold 'A' and have both diagonals reading M-A-S or S-A-M, also in
\* rows that are processed as a batch of 32 columns followed by the remainder
\* loop, and it reads no index outside the cell array.
C17_CrossCountIsInteriorCrosses ==
    pc4 = "crosses counted" =>
        /\ cross_count = Cardinality({cell \in TextCells(input) : IsCross(input, cell)})
        /\ \A idx \in indexes_read : idx >= 0 /\ idx < Len(grid.cells)

\* C17 witness: crosses were counted in a row that was processed as a batch
\* and a remainder, with a cross in the batch and a cross in the remainder.
C17_Witness_BatchAndRemainder ==
    /\ pc4 = "crosses counted"
    /\ BatchStarts(grid.width) # {}
    /\ \E cell \in TextCells(input) :
           IsCross(input, cell) /\ cell[2] - 1 < RemainderStart(grid.width)
    /\ \E cell \in TextCells(input) :
           IsCross(input, cell) /\ cell[2] - 1 >= RemainderStart(grid.width)

----------------------------------------------------------------------------
\* Day 4, Grid::from_str on any string.

\* Bound: characters of the input string.
MaxTextLen == 5

\* The characters of the strings of the runs.
Newline == "\n"
TextChars == {"X", ".", Newline}

\* str::lines: the pieces between line feeds, without a last empty piece
RECURSIVE StrLines(_, _, _)
StrLines(s, k, line) ==
    IF k > Len(s) THEN (IF line = <<>> THEN <<>> ELSE <<line>>)
    ELSE IF s[k] = Newline THEN <<line>> \o StrLines(s, k + 1, <<>>)
    ELSE StrLines(s, k + 1, Append(line, s[k]))

\* Grid::from_str: Err(ParseGridError), Ok(grid), or the panic of
\* cells.len() / width when width is 0
FromStr(s) ==
    LET lines == StrLines(s, 1, <<>>)
    IN  IF lines = <<>> THEN [returned |-> "Err"]
        ELSE IF \E row \in 1..Len(lines) : Len(lines[row]) # Len(lines[1])
        THEN [returned |-> "Err"]
        ELSE IF Len(lines[1]) = 0 THEN [returned |-> "panic"]
        ELSE [returned |-> "Ok", grid |-> GridFromStr(lines)]

Start4s ==
    /\ grid_text \in SeqsUpTo(TextChars, MaxTextLen)
    /\ grid_parsed = [returned |-> "not called"]

\* input.parse::<Grid>()
ParseGrid ==
    /\ grid_parsed.returned = "not called"
    /\ grid_parsed' = FromStr(grid_text)
    /\ UNCHANGED <<grid_text, others4s>>

\* No string to parse.
Rest4s ==
    /\ grid_text = <<>>
    /\ grid_parsed = [returned |-> "not called"]

Next4s == ParseGrid

\* C25: for every input string Grid::from_str returns Err(ParseGridError)
\* when the input has no lines or a line whose length differs from the first
\* line's, and otherwise Ok with a grid whose height times width is the
\* number of stored cells; it fails in no other way.
C25_FromStrErrOrWholeGrid ==
    grid_parsed.returned # "not called" =>
        IF \/ StrLines(grid_text, 1, <<>>) = <<>>
           \/ \E row \in 1..Len(StrLines(grid_text, 1, <<>>)) :
                  Len(StrLines(grid_text, 1, <<>>)[row])
                      # Len(StrLines(grid_text, 1, <<>>)[1])
        THEN grid_parsed.returned = "Err"
        ELSE /\ grid_parsed.returned = "Ok"
             /\ grid_parsed.grid.height * grid_parsed.grid.width
                    = Len(grid_parsed.grid.cells)

(***************************************************************************)
(* Day 1: the two location lists                                           *)
(***************************************************************************)
\* Bound: coordinate pairs recorded in one run.
MaxPairs == 2

\* The model's i64 is 16 bits wide: I64_MAX stands for i64::MAX, so that the
\* sums of the lists can also be computed in the integers.
I64_MAX == 32767
I64_MIN == -I64_MAX - 1

\* The locations of the runs: small values and the two ends of i64.
Locations == {3, 4, I64_MIN, I64_MAX}

\* Whether x is outside i64, and x wrapped into it.
Overflows64(x) == x < I64_MIN \/ x > I64_MAX
Wrapping64(x) == ((x - I64_MIN) % (2 * I64_MAX + 2)) + I64_MIN

\* scroll.binary_search(&location): a position (from 0) at which location
\* keeps the scroll sorted; every such position gives the same scroll.
BinarySearch(scroll, location) ==
    Cardinality({i \in 1..Len(scroll) : scroll[i] < location})

\* scroll.insert(pos, location)
Insert(scroll, pos, location) ==
    [i \in 1..(Len(scroll) + 1) |->
        IF i <= pos THEN scroll[i]
        ELSE IF i = pos + 1 THEN location
        ELSE scroll[i - 1]]

\* record_location_sighting
RecordLocationSighting(scroll, location) ==
    Insert(scroll, BinarySearch(scroll, location), location)

\* The result of a computation on i64: the value, and whether an operation
\* overflowed on the way.
Computed(value, overflowed) == [value |-> value, overflowed |-> overflowed]

\* (l - r).abs()
AbsDifference(l, r) ==
    LET diff == Wrapping64(l - r)
    IN  Computed(IF diff = I64_MIN THEN I64_MIN ELSE IF diff < 0 THEN -diff ELSE diff,
                 Overflows64(l - r) \/ diff = I64_MIN)

\* .sum() of the first k terms
RECURSIVE SumTerms(_, _)
SumTerms(terms, k) ==
    IF k = 0 THEN Computed(0, FALSE)
    ELSE LET before == SumTerms(terms, k - 1)
         IN  Computed(Wrapping64(before.value + terms[k].value),
                      \/ before.overflowed
                      \/ terms[k].overflowed
                      \/ Overflows64(before.value + terms[k].value))

Min(a, b) == IF a < b THEN a ELSE b

\* measure_historical_discrepancy
MeasureHistoricalDiscrepancy(senior, junior) ==
    LET n == Min(Len(senior), Len(junior))
    IN  SumTerms([i \in 1..n |-> AbsDifference(senior[i], junior[i])], n)

\* junior_historian_list.iter().filter(|&&x| x == location).count()
MatchingSightings(junior, location) ==
    Cardinality({i \in 1..Len(junior) : junior[i] = location})

\* location * (matching_sightings as i64)
Weighted(location, matching_sightings) ==
    Computed(Wrapping64(location * matching_sightings),
             Overflows64(location * matching_sightings))

\* analyze_location_correlation
AnalyzeLocationCorrelation(senior, junior) ==
    SumTerms([i \in 1..Len(senior) |->
                 Weighted(senior[i], MatchingSightings(junior, senior[i]))],
             Len(senior))

NoSightings == <<>>

Start1 ==
    /\ senior_historian_list = NoSightings
    /\ junior_historian_list = NoSightings
    /\ pc1 = "recording"
    /\ reported_distance = 0
    /\ reported_score = 0
    /\ overflow_checks1 \in BOOLEAN
    /\ pairs = <<>>

\* The HistoricalCoordinates handler.
RecordCoordinates(senior, junior) ==
    /\ pc1 = "recording"
    /\ Len(pairs) < MaxPairs
    /\ senior_historian_list' = RecordLocationSighting(senior_historian_list, senior)
    /\ junior_historian_list' = RecordLocationSighting(junior_historian_list, junior)
    /\ pairs' = Append(pairs, <<senior, junior>>)
    /\ UNCHANGED <<pc1, reported_distance, reported_score, overflow_checks1, others1>>

\* The ScrollFullyDecoded handler: both measures, then the report.  In a
\* build with overflow checks an overflow panics before anything is printed.
ReportFindings ==
    /\ pc1 = "recording"
    /\ LET d == MeasureHistoricalDiscrepancy(senior_historian_list, junior_historian_list)
           s == AnalyzeLocationCorrelation(senior_historian_list, junior_historian_list)
       IN  IF overflow_checks1 /\ (d.overflowed \/ s.overflowed)
           THEN pc1' = "panicked" /\ UNCHANGED <<reported_distance, reported_score>>
           ELSE pc1' = "reported" /\ reported_distance' = d.value /\ reported_score' = s.value
    /\ UNCHANGED <<senior_historian_list, junior_historian_list, overflow_checks1,
                   pairs, others1>>

\* Day 1 at rest: the default HistorianSage.
Rest1 ==
    /\ senior_historian_list = NoSightings
    /\ junior_historian_list = NoSightings
    /\ pc1 = "recording"
    /\ reported_distance = 0
    /\ reported_score = 0
    /\ overflow_checks1 = FALSE
    /\ pairs = <<>>

Next1 ==
    \/ \E senior, junior \in Locations : RecordCoordinates(senior, junior)
    \/ ReportFindings

\* ---- the two measures in the integers ----

\* The values of one column (1: left, 2: right) in ascending order.
RECURSIVE Ascending(_)
Ascending(column) ==
    IF column = <<>> THEN <<>>
    ELSE LET least == CHOOSE i \in 1..Len(column) :
                          \A j \in 1..Len(column) : column[i] <= column[j]
         IN  <<column[least]>> \o
             Ascending([i \in 1..(Len(column) - 1) |->
                           IF i < least THEN column[i] ELSE column[i + 1]])

Column(side) == [i \in 1..Len(pairs) |-> pairs[i][side]]

RECURSIVE SumOfInts(_, _)
SumOfInts(terms, k) == IF k = 0 THEN 0 ELSE SumOfInts(terms, k - 1) + terms[k]

Distance(a, b) == IF a < b THEN b - a ELSE a - b

\* The sum over i of |L[i] - R[i]|, L and R each sorted ascending.
TotalDistance ==
    SumOfInts([i \in 1..Len(pairs) |->
                  Distance(Ascending(Column(1))[i], Ascending(Column(2))[i])],
              Len(pairs))

\* The sum, over every left value v, of v times the number of occurrences of
\* v in the right column.
TotalCorrelation ==
    SumOfInts([i \in 1..Len(pairs) |->
                  pairs[i][1] * Cardinality({j \in 1..Len(pairs) : pairs[j][2] = pairs[i][1]})],
              Len(pairs))

\* C18: when ScrollFullyDecoded is handled after the recorded pairs, the
\* findings are reported, the reported distance is the sum of |L[i] - R[i]|
\* over the two columns sorted ascending, and the reported correlation is the
\* sum over every left value of the value times its occurrences on the right.
C18_ReportedMeasuresAreTheSums ==
    /\ pc1 # "panicked"
    /\ pc1 = "reported" => reported_distance = TotalDistance /\ reported_score = TotalCorrelation

(***************************************************************************)
(* The programs as commands: arguments, input, exit code                   *)
(***************************************************************************)
\* Bounds: lines of an input, fields of a line, arguments after the
\* program's name.
MaxLines == 2
MaxFields == 3
MaxArguments == 2

\* The fields of the runs, as characters: two numbers and a word.
Fields == { <<"3">>, <<"-", "4">>, <<"x">> }

Digit == [c \in {"0", "1", "2", "3", "4", "5", "6", "7", "8", "9"} |->
             CASE c = "0" -> 0 [] c = "1" -> 1 [] c = "2" -> 2 [] c = "3" -> 3
               [] c = "4" -> 4 [] c = "5" -> 5 [] c = "6" -> 6 [] c = "7" -> 7
               [] c = "8" -> 8 [] c = "9" -> 9]

\* What parse() gives: Ok(n) or Err, as a sequence of one number or of none.
Ok(n) == <<n>>
Err == <<>>

\* The value of the digits of field from position k on, after the value so
\* far; Err at the first character that is no digit.
RECURSIVE ParseDigits(_, _, _)
ParseDigits(field, k, value) ==
    IF k > Len(field) THEN Ok(value)
    ELSE IF field[k] \notin DOMAIN Digit THEN Err
    ELSE ParseDigits(field, k + 1, value * 10 + Digit[field[k]])

\* s.parse() to an integer type: an optional sign (- only for a signed type),
\* then at least one character, all digits.
Parse(field, signed) ==
    IF field = <<>> THEN Err
    ELSE IF field[1] = "+" \/ (field[1] = "-" /\ signed)
    THEN IF Len(field) = 1 THEN Err
         ELSE LET magnitude == ParseDigits(field, 2, 0)
              IN  IF magnitude = Err THEN Err
                  ELSE IF field[1] = "-" THEN Ok(-magnitude[1]) ELSE magnitude
    ELSE ParseDigits(field, 1, 0)

\* .filter_map(|s| s.parse().ok()).collect(): the numbers of the fields that
\* parse, in their order, from field k on
RECURSIVE FilterMapParse(_, _, _)
FilterMapParse(line, k, signed) ==
    IF k > Len(line) THEN <<>>
    ELSE Parse(line[k], signed) \o FilterMapParse(line, k + 1, signed)

\* Day 1, the DecodeAncientScroll handler: broadcasts, from line k on
RECURSIVE DecodeScroll(_, _)
DecodeScroll(lines, k) ==
    IF k > Len(lines) THEN <<>>
    ELSE LET numbers == FilterMapParse(lines[k], 1, TRUE)
         IN  (IF Len(numbers) = 2 THEN <<numbers>> ELSE <<>>) \o DecodeScroll(lines, k + 1)

\* Day 2, the ScanReactorReadings handler: broadcasts, from line k on
RECURSIVE ScanReadings(_, _)
ScanReadings(lines, k) ==
    IF k > Len(lines) THEN <<>>
    ELSE LET reactor_levels == FilterMapParse(lines[k], 1, TRUE)
         IN  (IF reactor_levels # <<>> THEN <<reactor_levels>> ELSE <<>>)
             \o ScanReadings(lines, k + 1)

\* Day 5, PrinterLore::decipher of a line split at '|': Some(rule) or None,
\* as a sequence of one rule or of none
Decipher(line) ==
    IF Len(line) < 2 THEN <<>>
    ELSE IF Parse(line[1], FALSE) = Err \/ Parse(line[2], FALSE) = Err THEN <<>>
    ELSE <<Lore(Parse(line[1], FALSE)[1], Parse(line[2], FALSE)[1])>>

\* Day 5, interpret_printer_lore, from line k on
RECURSIVE InterpretPrinterLore(_, _)
InterpretPrinterLore(section, k) ==
    IF k > Len(section) THEN <<>>
    ELSE (IF section[k] = <<>> THEN <<>> ELSE Decipher(section[k]))
         \o InterpretPrinterLore(section, k + 1)

\* Day 5, decode_update_requests, from line k on: a line split at ',' is kept
\* when every field parses
RECURSIVE DecodeUpdateRequests(_, _)
DecodeUpdateRequests(section, k) ==
    IF k > Len(section) THEN <<>>
    ELSE (IF section[k] = <<>> \/ \E f \in 1..Len(section[k]) :
                                     Parse(section[k][f], FALSE) = Err
          THEN <<>>
          ELSE <<[f \in 1..Len(section[k]) |-> Parse(section[k][f], FALSE)[1]]>>)
         \o DecodeUpdateRequests(section, k + 1)

\* The inputs of the runs: up to MaxLines lines of up to MaxFields fields; a
\* file that cannot be opened has none.
\* Day 5 reads the first line as its section of rules and the other lines as
\* its section of updates.
Contents == SeqsUpTo(SeqsUpTo(Fields, MaxFields), MaxLines)

\* The exit codes of a process whose agent panicked in a handler: what the
\* actor runtime makes of the panic is not part of the source.
AfterHandlerPanic == {0, 101}

Launch ==
    /\ program \in 1..5
    /\ arguments \in 0..MaxArguments
    /\ content \in Contents
    /\ file_opens \in (IF program = 5 \/ content # <<>> THEN {TRUE} ELSE BOOLEAN)
    /\ pc0 = "launched"
    /\ exit_code = -1
    /\ stderr_written = FALSE
    /\ result_printed = FALSE
    /\ decoded = <<>>

\* How a run ends.
Exit(code, message, result, from) ==
    /\ pc0' = "exited"
    /\ exit_code' = code
    /\ stderr_written' = message
    /\ result_printed' = result
    /\ decoded' = from
    /\ UNCHANGED <<program, arguments, content, file_opens, others0>>

\* Day 1, main and its handlers
MainDay1 ==
    /\ program = 1 /\ pc0 = "launched"
    /\ IF arguments = 0 THEN Exit(1, TRUE, FALSE, <<>>)
       ELSE IF ~file_opens
       THEN \E code \in AfterHandlerPanic : Exit(code, TRUE, FALSE, <<>>)
       ELSE Exit(0, FALSE, TRUE, DecodeScroll(content, 1))

\* Day 2, main and its handlers
MainDay2 ==
    /\ program = 2 /\ pc0 = "launched"
    /\ IF arguments = 0 THEN Exit(1, TRUE, FALSE, <<>>)
       ELSE IF ~file_opens
       THEN \E code \in AfterHandlerPanic : Exit(code, TRUE, FALSE, <<>>)
       ELSE Exit(0, FALSE, TRUE, ScanReadings(content, 1))

\* Day 3, main
MainDay3 ==
    /\ program = 3 /\ pc0 = "launched"
    /\ IF arguments = 0 THEN Exit(0, TRUE, FALSE, <<>>)
       ELSE IF ~file_opens THEN Exit(1, TRUE, FALSE, <<>>)
       ELSE Exit(0, FALSE, TRUE, content)

\* Day 4, Grid::from_str: line.len(), for fields one space apart, from field
\* k on
RECURSIVE LineLen(_, _)
LineLen(line, k) ==
    IF k > Len(line) THEN 0
    ELSE Len(line[k]) + (IF k < Len(line) THEN 1 ELSE 0) + LineLen(line, k + 1)

\* Day 4, main
MainDay4 ==
    /\ program = 4 /\ pc0 = "launched"
    /\ IF arguments # 1 THEN Exit(1, TRUE, FALSE, <<>>)
       ELSE IF ~file_opens THEN Exit(1, TRUE, FALSE, <<>>)
       ELSE IF content = <<>> \/ \E k \in 1..Len(content) : LineLen(content[k], 1) # LineLen(content[1], 1)
       THEN Exit(1, TRUE, FALSE, <<>>)
       ELSE IF LineLen(content[1], 1) = 0 THEN Exit(101, TRUE, FALSE, <<>>)
       ELSE Exit(0, FALSE, TRUE, content)

\* Day 5, diagnose_enchanted_printer: the two sections of the input
LoreSection(lines) == IF lines = <<>> THEN <<>> ELSE <<lines[1]>>
UpdateSection(lines) == [k \in 1..(Len(lines) - 1) |-> lines[k + 1]]

\* Day 5, main and diagnose_enchanted_printer
MainDay5 ==
    /\ program = 5 /\ pc0 = "launched"
    /\ Exit(0, FALSE, TRUE,
            << InterpretPrinterLore(LoreSection(content), 1),
               DecodeUpdateRequests(UpdateSection(content), 1) >>)

\* No program running.
Rest0 ==
    /\ program = 3
    /\ arguments = 0
    /\ content = <<>>
    /\ file_opens = FALSE
    /\ pc0 = "launched"
    /\ exit_code = -1
    /\ stderr_written = FALSE
    /\ result_printed = FALSE
    /\ decoded = <<>>

Next0 ==
    \/ MainDay1
    \/ MainDay2
    \/ MainDay3
    \/ MainDay4
    \/ MainDay5

\* C19: a day that takes its input as a file-path argument (days 1 to 4)
\* ends with a non-zero exit code and an error message when no path argument
\* is given or the file cannot be opened, and ends with exit code 0 only when
\* it has printed a result.
C19_ExitCodeTellsSuccess ==
    pc0 = "exited" /\ program \in 1..4 =>
        /\ arguments = 0 \/ ~file_opens => exit_code # 0 /\ stderr_written
        /\ exit_code = 0 => result_printed

\* Whether a field of the input is no number for the program reading it.
Malformed ==
    /\ file_opens
    /\ \E k \in 1..Len(content) : \E f \in 1..Len(content[k]) :
           Parse(content[k][f], program # 5) = Err

\* C20: a malformed numeric field aborts the program with a printed message:
\* days 1, 2 and 5 do not drop a malformed field or line and still report a
\* result computed from the remaining input.
C20_MalformedFieldAborts ==
    pc0 = "exited" /\ program \in {1, 2, 5} /\ (program = 5 \/ arguments > 0) /\ Malformed =>
        ~result_printed /\ stderr_written /\ exit_code # 0
----------------------------------------------------------------------------
\* Days 5 and 6, the Display of the result: fmt with or without the '-' flag.
\* A text is a sequence of lines and a line a sequence of characters; of the
\* literal text the decorations (emoji, rules of box characters, empty lines)
\* are left out, the same in every output.

\* The numbers of the results of the runs.
ResultNumbers == {0, 9, 41, 123, 143}

\* Display for an unsigned integer: its decimal digits
RECURSIVE DecimalDigits(_)
DecimalDigits(n) ==
    IF n < 10 THEN <<AsciiDigits[n + 1]>>
    ELSE Append(DecimalDigits(n \div 10), AsciiDigits[(n % 10) + 1])

Stars == <<"*", "*", "*", "*", "*">>

DiagnosisHeader ==
    <<"A", "n", "c", "i", "e", "n", "t", " ", "P", "r", "i", "n", "t", "e",
      "r", " ", "D", "i", "a", "g", "n", "o", "s", "i", "s", " ", "C", "o",
      "m", "p", "l", "e", "t", "e", "!">>
AnalysisHeader ==
    <<"T", "e", "m", "p", "o", "r", "a", "l", " ", "A", "n", "a", "l", "y",
      "s", "i", "s", " ", "C", "o", "m", "p", "l", "e", "t", "e", "!">>
ProperlyLabel ==
    <<"P", "r", "o", "p", "e", "r", "l", "y", " ", "O", "r", "d", "e", "r",
      "e", "d", " ", "U", "p", "d", "a", "t", "e", "s", " ", "S", "u", "m",
      ":", " ">>
ReorderedLabel ==
    <<"R", "e", "o", "r", "d", "e", "r", "e", "d", " ", "U", "p", "d", "a",
      "t", "e", "s", " ", "S", "u", "m", ":", " ">>
CoverageLabel ==
    <<"G", "u", "a", "r", "d", "'", "s", " ", "P", "a", "t", "r", "o", "l",
      " ", "C", "o", "v", "e", "r", "a", "g", "e", ":", " ">>
CoverageUnit ==
    <<" ", "u", "n", "i", "q", "u", "e", " ", "t", "e", "m", "p", "o", "r",
      "a", "l", " ", "c", "o", "o", "r", "d", "i", "n", "a", "t", "e", "s">>
ParadoxLabel ==
    <<"V", "i", "a", "b", "l", "e", " ", "P", "a", "r", "a", "d", "o", "x",
      " ", "P", "o", "i", "n", "t", "s", ":", " ">>
ParadoxUnit == <<" ", "c", "o", "o", "r", "d", "i", "n", "a", "t", "e", "s">>

\* A Display that redacts the first number only.
FmtDiagnosisFirstOnly(diagnosis, redact) ==
    << DiagnosisHeader,
       ProperlyLabel \o (IF redact THEN Stars
                         ELSE DecimalDigits(diagnosis.properly_ordered_sum)),
       ReorderedLabel \o DecimalDigits(diagnosis.reordered_pages_sum) >>

\* impl fmt::Display for PrinterDiagnosis, redact being f.sign_minus()
FmtDiagnosis(diagnosis, redact) ==
    << DiagnosisHeader,
       ProperlyLabel \o (IF redact THEN Stars
                         ELSE DecimalDigits(diagnosis.properly_ordered_sum)),
       ReorderedLabel \o (IF redact THEN Stars
                          ELSE DecimalDigits(diagnosis.reordered_pages_sum)) >>

\* impl fmt::Display for PatrolAnalysis, redact being f.sign_minus()
FmtAnalysis(analysis, redact) ==
    LET coverage == IF redact THEN Stars
                    ELSE DecimalDigits(analysis.patrol_coverage) \o CoverageUnit
        paradox == IF redact THEN Stars
                   ELSE DecimalDigits(analysis.paradox_points) \o ParadoxUnit
    IN  << AnalysisHeader,
           CoverageLabel \o coverage,
           ParadoxLabel \o paradox >>

\* Two results of one program, which differ at most in their numbers, and
\* the flag both are formatted with.
StartFmt ==
    /\ report_day \in {5, 6}
    /\ reports \in
           IF report_day = 5
           THEN [1..2 -> [properly_ordered_sum : ResultNumbers,
                          reordered_pages_sum : ResultNumbers]]
           ELSE [1..2 -> [patrol_coverage : ResultNumbers,
                          paradox_points : ResultNumbers]]
    /\ sign_minus \in BOOLEAN
    /\ printed = <<>>

\* main of day 5: print!("{:-}", diagnosis) or print!("{}", diagnosis)
PrintDiagnosis ==
    /\ report_day = 5 /\ printed = <<>>
    /\ printed' = [k \in 1..2 |-> FmtDiagnosis(reports[k], sign_minus)]
    /\ UNCHANGED <<report_day, reports, sign_minus, othersFmt>>

\* main of day 6: print!("{:-}", analysis) or print!("{}", analysis)
PrintAnalysis ==
    /\ report_day = 6 /\ printed = <<>>
    /\ printed' = [k \in 1..2 |-> FmtAnalysis(reports[k], sign_minus)]
    /\ UNCHANGED <<report_day, reports, sign_minus, othersFmt>>

\* Nothing to print.
RestFmt ==
    /\ report_day = 5
    /\ reports = <<>>
    /\ sign_minus = FALSE
    /\ printed = <<>>

NextFmt == PrintDiagnosis \/ PrintAnalysis

\* The two numbers of a result, in the order of its fields.
NumbersOf(report) ==
    IF report_day = 5
    THEN <<report.properly_ordered_sum, report.reordered_pages_sum>>
    ELSE <<report.patrol_coverage, report.paradox_points>>

\* The labels before the two numbers and the words after them.
LabelsOfDay == IF report_day = 5 THEN <<ProperlyLabel, ReorderedLabel>>
               ELSE <<CoverageLabel, ParadoxLabel>>
UnitsOfDay == IF report_day = 5 THEN << <<>>, <<>> >>
              ELSE <<CoverageUnit, ParadoxUnit>>

\* What line says after its label and before its unit.
ValueShown(line, label, unit) ==
    SubSeq(line, Len(label) + 1, Len(line) - Len(unit))

\* C23: formatting with the redaction flag shows '*****' in place of both
\* numbers and gives the same text for any two results that differ only in
\* those numbers; formatting without the flag shows both numbers.
C23_RedactionHidesBothNumbers ==
    printed # <<>> =>
        /\ sign_minus =>
               /\ printed[1] = printed[2]
               /\ \A k \in 1..2 : \A n \in 1..2 :
                      /\ printed[k][n + 1] = LabelsOfDay[n] \o Stars
                      /\ \A i \in 1..Len(printed[k][n + 1]) :
                             ~IsAsciiDigit(printed[k][n + 1][i])
        /\ ~sign_minus =>
               \A k \in 1..2 : \A n \in 1..2 :
                   /\ IsPrefix(LabelsOfDay[n], printed[k][n + 1])
                   /\ AllDigits(ValueShown(printed[k][n + 1], LabelsOfDay[n],
                                           UnitsOfDay[n]))
                   /\ Len(printed[k][n + 1]) > Len(LabelsOfDay[n]) + Len(UnitsOfDay[n])
                   /\ Decimal(ValueShown(printed[k][n + 1], LabelsOfDay[n],
                                         UnitsOfDay[n])) = NumbersOf(reports[k])[n]

\* C23 witness: two results that differ in both numbers were formatted with
\* the flag.
C23_Witness_RedactedPair ==
    /\ printed # <<>>
    /\ sign_minus
    /\ NumbersOf(reports[1])[1] # NumbersOf(reports[2])[1]
    /\ NumbersOf(reports[1])[2] # NumbersOf(reports[2])[2]
----------------------------------------------------------------------------
\* Days 1 and 2, the two agents: the reader broadcasts one message per line
\* and then the completion signal; the analyzer handles what reaches its
\* inbox one message at a time.  A broadcast that has completed has put its
\* message into the inbox of the subscribed analyzer.

\* Bound: number of per-line messages of one file.
MaxBroadcasts == 3

\* The messages of the runs.  Day 1: HistoricalCoordinates; day 2:
\* ReactorLevels.  One of each overflows in the analyzer.
CoordinatesOfRuns == { <<3, 4>>, <<4, 3>>, <<I64_MIN, 3>> }
LevelsOfRuns == { <<1, 2>>, <<1, 1, 1>>, <<I32_MIN, 1>> }

\* The completion signal in the inbox (a per-line message is its index).
Signal == 0

\* A reader that does not wait for the per-line broadcasts.
NoneAwaited(futures) == TRUE

\* futures::future::join_all(futures).await: every broadcast has completed
JoinAll(futures) == futures = {}

\* HistorianSage::default() and ReactorSafetyAnalyzer::default()
DefaultModel(day) ==
    IF day = 1 THEN [senior_list |-> <<>>, junior_list |-> <<>>]
    ELSE [total |-> 0, safe |-> 0]

\* The handler of a per-line message on the analyzer's model: the model
\* after it, and whether the handler panicked.
ActOnLine(day, agent_model, message, checks) ==
    IF day = 1
    THEN [model |-> [senior_list |->
                         RecordLocationSighting(agent_model.senior_list, message[1]),
                     junior_list |->
                         RecordLocationSighting(agent_model.junior_list, message[2])],
          panicked |-> FALSE]
    ELSE LET verdict == ReportVerdict(message, checks)
         IN  [model |-> [total |-> agent_model.total + 1,
                         safe |-> IF verdict = "true" THEN agent_model.safe + 1
                                  ELSE agent_model.safe],
              panicked |-> verdict = "panic"]

\* The handler of the completion signal: the totals it prints, none when it
\* panics.
ActOnSignal(day, agent_model, checks) ==
    IF day = 1
    THEN LET d == MeasureHistoricalDiscrepancy(agent_model.senior_list,
                                               agent_model.junior_list)
             s == AnalyzeLocationCorrelation(agent_model.senior_list,
                                             agent_model.junior_list)
         IN  IF checks /\ (d.overflowed \/ s.overflowed) THEN <<>>
             ELSE << <<s.value, d.value>> >>
    ELSE << <<agent_model.total, agent_model.safe>> >>

\* Both agents started, the file not yet read.
StartAgents ==
    /\ agent_day \in {1, 2}
    /\ file_messages \in
           IF agent_day = 1 THEN SeqsUpTo(CoordinatesOfRuns, MaxBroadcasts)
           ELSE SeqsUpTo(LevelsOfRuns, MaxBroadcasts)
    /\ checked_build \in BOOLEAN
    /\ reader_pc = "started"
    /\ futures_left = {}
    /\ inbox = <<>>
    /\ analyzer_model = DefaultModel(agent_day)
    /\ analyzer_down = FALSE
    /\ handling_order = <<>>
    /\ announced = <<>>

\* The reader's handler up to the async block: one broadcast per line kept.
ReadFile ==
    /\ reader_pc = "started"
    /\ reader_pc' = "broadcasting"
    /\ futures_left' = 1..Len(file_messages)
    /\ UNCHANGED <<agent_day, file_messages, checked_build, inbox, analyzer_model,
                   analyzer_down, handling_order, announced, othersMsg>>

\* One of the joined broadcasts completes.
BroadcastLine(k) ==
    /\ reader_pc = "broadcasting"
    /\ k \in futures_left
    /\ futures_left' = futures_left \ {k}
    /\ inbox' = Append(inbox, k)
    /\ UNCHANGED <<agent_day, file_messages, checked_build, reader_pc, analyzer_model,
                   analyzer_down, handling_order, announced, othersMsg>>

\* broker.broadcast(ScrollFullyDecoded) or broker.broadcast(AnalysisComplete),
\* after the join.
BroadcastSignal ==
    /\ reader_pc = "broadcasting"
    /\ JoinAll(futures_left)
    /\ reader_pc' = "signalled"
    /\ inbox' = Append(inbox, Signal)
    /\ UNCHANGED <<agent_day, file_messages, checked_build, futures_left,
                   analyzer_model, analyzer_down, handling_order, announced,
                   othersMsg>>

\* The analyzer takes the next message of its inbox.
HandleNext ==
    /\ inbox # <<>>
    /\ ~analyzer_down
    /\ inbox' = Tail(inbox)
    /\ handling_order' = Append(handling_order, Head(inbox))
    /\ IF Head(inbox) = Signal
       THEN LET totals == ActOnSignal(agent_day, analyzer_model, checked_build)
            IN  /\ announced' = totals
                /\ analyzer_down' = (totals = <<>>)
                /\ UNCHANGED analyzer_model
       ELSE LET after == ActOnLine(agent_day, analyzer_model,
                                   file_messages[Head(inbox)], checked_build)
            IN  /\ analyzer_model' = after.model
                /\ analyzer_down' = after.panicked
                /\ UNCHANGED announced
    /\ UNCHANGED <<agent_day, file_messages, checked_build, reader_pc, futures_left,
                   othersMsg>>

\* No agents.
RestMsg ==
    /\ agent_day = 1
    /\ file_messages = <<>>
    /\ checked_build = FALSE
    /\ reader_pc = "started"
    /\ futures_left = {}
    /\ inbox = <<>>
    /\ analyzer_model = DefaultModel(1)
    /\ analyzer_down = FALSE
    /\ handling_order = <<>>
    /\ announced = <<>>

NextMsg ==
    \/ ReadFile
    \/ \E k \in 1..MaxBroadcasts : BroadcastLine(k)
    \/ BroadcastSignal
    \/ HandleNext

\* ---- the lines one by one in file order ----

\* The analyzer's model after the messages 1..k in file order, and whether one
\* of their handlers panicked.
RECURSIVE InFileOrder(_)
InFileOrder(k) ==
    IF k = 0 THEN [model |-> DefaultModel(agent_day), panicked |-> FALSE]
    ELSE LET before == InFileOrder(k - 1)
             after == ActOnLine(agent_day, before.model, file_messages[k],
                                checked_build)
         IN  [model |-> after.model, panicked |-> before.panicked \/ after.panicked]

\* What processing the whole file in file order reports.
ReportedInFileOrder ==
    LET whole == InFileOrder(Len(file_messages))
    IN  IF whole.panicked THEN <<>>
        ELSE ActOnSignal(agent_day, whole.model, checked_build)

\* C22: the reader broadcasts the completion signal only after every per-line
\* broadcast has completed, and in whatever order the analyzer handles the
\* per-line messages, the totals it reports on the completion signal are
\* those of processing the file's lines one by one in file order.
C22_SignalLastAndTotalsOfFileOrder ==
    /\ reader_pc = "signalled" => futures_left = {}
    /\ \A i \in 1..Len(handling_order) :
           handling_order[i] = Signal =>
               \A k \in 1..Len(file_messages) :
                   \E j \in 1..(i - 1) : handling_order[j] = k
    /\ announced # <<>> => announced = ReportedInFileOrder

\* C22 witness: totals were reported after two different per-line messages
\* were handled against file order.
C22_Witness_HandledOutOfFileOrder ==
    /\ announced # <<>>
    /\ \E i, j \in 1..Len(handling_order) :
           /\ i < j
           /\ handling_order[j] # Signal
           /\ handling_order[i] > handling_order[j]
           /\ file_messages[handling_order[i]] # file_messages[handling_order[j]]

(***************************************************************************)
(* Specifications: one per day                                             *)
(***************************************************************************)
InitDay3 == Start3 /\ Rest7 /\ Rest5 /\ Rest2 /\ Rest6 /\ Rest9 /\ Rest10 /\ Rest11 /\ Rest8 /\ Rest4 /\ Rest1 /\ Rest0 /\ Rest6p /\ Rest4s /\ Rest3f /\ RestFmt /\ RestMsg
SpecDay3 == InitDay3 /\ [][Next3]_vars

InitDay7 == Start7 /\ Rest3 /\ Rest5 /\ Rest2 /\ Rest6 /\ Rest9 /\ Rest10 /\ Rest11 /\ Rest8 /\ Rest4 /\ Rest1 /\ Rest0 /\ Rest6p /\ Rest4s /\ Rest3f /\ RestFmt /\ RestMsg
SpecDay7 == InitDay7 /\ [][Next7]_vars

InitDay5 == Start5 /\ Rest3 /\ Rest7 /\ Rest2 /\ Rest6 /\ Rest9 /\ Rest10 /\ Rest11 /\ Rest8 /\ Rest4 /\ Rest1 /\ Rest0 /\ Rest6p /\ Rest4s /\ Rest3f /\ RestFmt /\ RestMsg
SpecDay5 == InitDay5 /\ [][Next5]_vars

\* The program goes on as long as it has a statement to run.
SpecDay5Live == InitDay5 /\ [][Next5]_vars /\ WF_vars(Next5)

InitDay2 == Start2 /\ Rest3 /\ Rest7 /\ Rest5 /\ Rest6 /\ Rest9 /\ Rest10 /\ Rest11 /\ Rest8 /\ Rest4 /\ Rest1 /\ Rest0 /\ Rest6p /\ Rest4s /\ Rest3f /\ RestFmt /\ RestMsg
SpecDay2 == InitDay2 /\ [][Next2]_vars

InitDay6 == Start6 /\ Rest3 /\ Rest7 /\ Rest5 /\ Rest2 /\ Rest9 /\ Rest10 /\ Rest11 /\ Rest8 /\ Rest4 /\ Rest1 /\ Rest0 /\ Rest6p /\ Rest4s /\ Rest3f /\ RestFmt /\ RestMsg
SpecDay6 == InitDay6 /\ [][Next6]_vars

\* A function that has been called runs: the loops of both day 6 functions
\* take their next turn.
SpecDay6Live == InitDay6 /\ [][Next6]_vars /\ WF_vars(TimelineStep) /\ WF_vars(PatrolStep)

InitDay9 == Start9 /\ Rest3 /\ Rest7 /\ Rest5 /\ Rest2 /\ Rest6 /\ Rest10 /\ Rest11 /\ Rest8 /\ Rest4 /\ Rest1 /\ Rest0 /\ Rest6p /\ Rest4s /\ Rest3f /\ RestFmt /\ RestMsg
SpecDay9 == InitDay9 /\ [][Next9]_vars

\* A compaction that has been called runs: its loop takes its next turn.
SpecDay9Live ==
    InitDay9 /\ [][Next9]_vars /\ WF_vars(CompactBlocksStep) /\ WF_vars(CompactFilesStep)

InitDay10 == Start10 /\ Rest3 /\ Rest7 /\ Rest5 /\ Rest2 /\ Rest6 /\ Rest9 /\ Rest11 /\ Rest8 /\ Rest4 /\ Rest1 /\ Rest0 /\ Rest6p /\ Rest4s /\ Rest3f /\ RestFmt /\ RestMsg
SpecDay10 == InitDay10 /\ [][Next10]_vars

InitDay11 == Start11 /\ Rest3 /\ Rest7 /\ Rest5 /\ Rest2 /\ Rest6 /\ Rest9 /\ Rest10 /\ Rest8 /\ Rest4 /\ Rest1 /\ Rest0 /\ Rest6p /\ Rest4s /\ Rest3f /\ RestFmt /\ RestMsg
SpecDay11 == InitDay11 /\ [][Next11]_vars

InitDay8 == Start8 /\ Rest3 /\ Rest7 /\ Rest5 /\ Rest2 /\ Rest6 /\ Rest9 /\ Rest10 /\ Rest11 /\ Rest4 /\ Rest1 /\ Rest0 /\ Rest6p /\ Rest4s /\ Rest3f /\ RestFmt /\ RestMsg
SpecDay8 == InitDay8 /\ [][Next8]_vars

InitDay4 ==
    Start4 /\ Rest3 /\ Rest7 /\ Rest5 /\ Rest2 /\ Rest6 /\ Rest9 /\ Rest10 /\ Rest11 /\ Rest8 /\ Rest1 /\ Rest0 /\ Rest6p /\ Rest4s /\ Rest3f /\ RestFmt /\ RestMsg
SpecDay4 == InitDay4 /\ [][Next4]_vars

InitDay1 ==
    Start1 /\ Rest3 /\ Rest7 /\ Rest5 /\ Rest2 /\ Rest6 /\ Rest9 /\ Rest10 /\ Rest11 /\ Rest8 /\ Rest4 /\ Rest0 /\ Rest6p /\ Rest4s /\ Rest3f /\ RestFmt /\ RestMsg
SpecDay1 == InitDay1 /\ [][Next1]_vars

InitRuns ==
    Launch /\ Rest3 /\ Rest7 /\ Rest5 /\ Rest2 /\ Rest6 /\ Rest9 /\ Rest10 /\ Rest11 /\ Rest8 /\ Rest4 /\ Rest1 /\ Rest6p /\ Rest4s /\ Rest3f /\ RestFmt /\ RestMsg
SpecRuns == InitRuns /\ [][Next0]_vars

InitDay7Large ==
    Start7Large /\ Rest3 /\ Rest5 /\ Rest2 /\ Rest6 /\ Rest9 /\ Rest10 /\ Rest11 /\ Rest8 /\ Rest4 /\ Rest1 /\ Rest0 /\ Rest6p /\ Rest4s /\ Rest3f /\ RestFmt /\ RestMsg
SpecDay7Large == InitDay7Large /\ [][Next7]_vars

InitDay8Lines ==
    Start8Lines /\ Rest3 /\ Rest7 /\ Rest5 /\ Rest2 /\ Rest6 /\ Rest9 /\ Rest10 /\ Rest11 /\ Rest4 /\ Rest1 /\ Rest0 /\ Rest6p /\ Rest4s /\ Rest3f /\ RestFmt /\ RestMsg
SpecDay8Lines == InitDay8Lines /\ [][Next8]_vars

InitDay6Chunks ==
    Start6 /\ Start6p /\ Rest3 /\ Rest7 /\ Rest5 /\ Rest2 /\ Rest9 /\ Rest10 /\ Rest11 /\ Rest8 /\ Rest4 /\ Rest1 /\ Rest0 /\ Rest4s /\ Rest3f /\ RestFmt /\ RestMsg
SpecDay6Chunks == InitDay6Chunks /\ [][Next6p]_vars

InitDay4Strings ==
    Start4s /\ Rest3 /\ Rest7 /\ Rest5 /\ Rest2 /\ Rest6 /\ Rest9 /\ Rest10 /\ Rest11 /\ Rest8 /\ Rest4 /\ Rest1 /\ Rest0 /\ Rest6p /\ Rest3f /\ RestFmt /\ RestMsg
SpecDay4Strings == InitDay4Strings /\ [][Next4s]_vars

InitDay3Calls ==
    Start3 /\ Start3f /\ Rest7 /\ Rest5 /\ Rest2 /\ Rest6 /\ Rest9 /\ Rest10 /\ Rest11 /\ Rest8 /\ Rest4 /\ Rest1 /\ Rest0 /\ Rest6p /\ Rest4s /\ RestFmt /\ RestMsg
SpecDay3Calls == InitDay3Calls /\ [][Next3f]_vars

InitFmt ==
    StartFmt /\ Rest3 /\ Rest7 /\ Rest5 /\ Rest2 /\ Rest6 /\ Rest9 /\ Rest10 /\ Rest11 /\ Rest8 /\ Rest4 /\ Rest1 /\ Rest0 /\ Rest6p /\ Rest4s /\ Rest3f /\ RestMsg
SpecFmt == InitFmt /\ [][NextFmt]_vars

InitAgents ==
    StartAgents /\ Rest3 /\ Rest7 /\ Rest5 /\ Rest2 /\ Rest6 /\ Rest9 /\ Rest10 /\ Rest11 /\ Rest8 /\ Rest4 /\ Rest1 /\ Rest0 /\ Rest6p /\ Rest4s /\ Rest3f /\ RestFmt
SpecAgents == InitAgents /\ [][NextMsg]_vars

=============================================================================
